---- MODULE Spec2Model ----
(***************************************************************************)
(* simplemdns: the client facade (client.go), its lazily started fan-out   *)
(* goroutine, the transport's receive loops (internal/transport/mdns.go)   *)
(* and close sequence (mdnsConn.Close), and the broadcaster hub            *)
(* (broadcaster[T]) used by the hub-based client.                          *)
(*                                                                         *)
(* Go channels are modelled as a buffer (chBuf) and a closed flag          *)
(* (chClosed).  A send on a closed channel and a close of a closed channel *)
(* panic in Go; a panic ends the process, so `panicked` records the cause  *)
(* and every action is disabled afterwards.                                *)
(***************************************************************************)
EXTENDS Integers, Sequences, FiniteSets, TLC

\* ---------------------------------------------------------------- bounds
NumCallers == 2      \* caller goroutines using the client concurrently
MaxOps     == 3      \* operations started over the life of the client
MaxRecv    == 1      \* datagrams the network delivers in total (Spec)
MaxRecvQ   == 2      \* datagrams the network delivers in total (QuerySpec)
MaxRecvH   == 2      \* datagrams the network delivers in total (HubSpec)
MsgsCap    == 1      \* Options.MsgsChBufSize (default 32)
SubCap     == 1      \* cap of a Subscribe channel (32 in client.go)

NumIfaces  == 2      \* len(Options.JoinIfaces)

HubCap == 1          \* ch := make(chan T, 1) in broadcaster.subscribe

Callers  == 1..NumCallers
Families == {4, 6}
Ifaces   == 1..NumIfaces

\* ---------------------------------------------------------------- messages
\* dns.RR_Header fields the client looks at, plus the record data.
RR(n, t, c, d) == [Name |-> n, Rrtype |-> t, Class |-> c, Rdata |-> d]

\* The answer sections of the datagrams the network may deliver.
Bodies ==
  << << RR("HOST.local.", "A", "IN", 1),
        RR("host.local.", "AAAA", "IN", 2),
        RR("host.local.", "A", "CH", 3) >>,
     << RR("HOST.local.", "A", "IN", 1),
        RR("host.local.", "AAAA", "IN", 2),
        RR("host.local.", "A", "CH", 3),
        RR("host.local.", "A", "IN", 4),
        RR("host.local.", "A", "IN", 5) >> >>

BodyIds == 1..Len(Bodies)

Answer(m) == Bodies[m.body]

Questions ==
  { [Name |-> "host.local.", Qtype |-> "A", Qclass |-> "IN"] }

NoQuestion == [Name |-> "", Qtype |-> "", Qclass |-> ""]
\* A received message: the number of the datagram, its answer section, and as
\* history its position among the messages that entered the inbound queue and
\* the number of channels Subscribe had made when ReadFromUDP returned it (kept
\* in QuerySpec only, 0 elsewhere).
NoMsg      == [id |-> 0, body |-> 1, seq |-> 0, chans |-> 0]
NoResult   == [kind |-> "none", rr |-> RR("", "", "", 0)]

Result(k)    == [kind |-> k, rr |-> RR("", "", "", 0)]

\* The locals of a multicast / unicast call before the call: the family and the
\* interface its loop is at, sent4 / sent6, and the family of the destination.
NoSend == [fam |-> 4, idx |-> 1, sent |-> [f \in Families |-> 0], dest |-> 0]
AnswerResult(r) == [kind |-> "answer", rr |-> r]

\* ---------------------------------------------------------------- state
VARIABLES
  conn,            \* socket.conn4 / socket.conn6: "nil", "open", "closed"
  recvPc,          \* recvLoop per socket: "none", "read", "enqueue", "exited"
  recvMsg,         \* the message a recvLoop decoded and is about to enqueue
  netIn,           \* datagrams delivered so far
  msgs,            \* mdnsConn.msgs buffer
  msgsClosed,      \* mdnsConn.msgs closed
  closeOnce,       \* client.closeOnce: "idle", "running", "done"
  closeIdx,        \* Close's position in its loop over c.subscribers
  subscribers,     \* client.subscribers
  subMu,           \* client.subMu held
  broadcasterOnce, \* client.broadcasterOnce done
  fanPc,           \* fan-out goroutine: "off", "recv", "copy", "send",
                   \*   "cleanup_lock", "cleanup", "exited"
  fanMsg,          \* msg of the fan-out loop
  fanSubs,         \* subs, the fan-out loop's copy of c.subscribers
  fanIdx,          \* position in the loop over subs / c.subscribers
  chBuf,           \* buffer of every channel made by Subscribe
  chClosed,        \* closed flag of every channel made by Subscribe
  chKind,          \* the operation that made the channel
  pc,              \* position of each caller
  op,              \* operation each caller is in / was last in
  ch,              \* msgCh / ch of the caller's operation
  question,        \* question of the caller's QueryFirst
  ctxDone,         \* ctx.Done() of the caller's QueryFirst has fired
  result,          \* what the caller's operation returned
  seen,            \* messages the caller's QueryFirst took from msgCh
  opsStarted,      \* operations started so far
  panicked,        \* "none" or the cause of the panic
  closedMidWait,   \* history: Close began while the caller's QueryFirst was blocked
  subs,            \* broadcaster.subs
  closed,          \* broadcaster.closed
  mu,              \* broadcaster.mu held by a broadcast in progress
  rcvPc,           \* client.receiving goroutine: "none", "recv", "lock",
                   \*   "broadcast", "exited"
  rcvMsg,          \* msg of client.receiving
  bIdx,            \* position of broadcast in its loop over b.subs
  mconnOnce,       \* mdnsConn.closeOnce (mdns_conn.go): "idle", "running", "done"
  hubCloseDone,    \* history: a broadcaster.close call has completed
  lateSubs,        \* history: channels returned by subscribe calls made after that
  latePubs,        \* history: ids of messages whose broadcast began after that
  due,             \* history: <<id, k>>: k was registered when id's broadcast began
  attempts,        \* history: [id, ch, wasFull] of every send broadcast attempted
  got,             \* history: per channel, the ids enqueued on it
  enq,             \* history: messages that entered the inbound queue so far
  ipVersion,       \* Options.IPVersion: the address families asked for
  newPc,           \* transport.New: "udp4", "udp6", "decide", "start", "ready", "failed"
  newErr,          \* err4 / err6 of newSocket: TRUE when not nil
  bound,           \* net.ListenUDP succeeded for the family (s.connIPv4 / s.connIPv6 set)
  joined,          \* `joined` of newUDP4Conn / newUDP6Conn
  ifacesNo,        \* s.ifacesNoIPv4 / s.ifacesNoIPv6
  closeErrs,       \* err4 / err6 of socket.close: TRUE when not nil
  snd,             \* locals of a caller's multicast / unicast call
  wrote,           \* history: per caller, the writes its send call attempted
  sockPtr,         \* sockets.conn4 / sockets.conn6 (sockets.go): "nil" or "set"
  nilUse,          \* history: a send used a sockets.conn4 / conn6 that close had set to nil
  fanStarted,      \* history: how often `go func()` of Subscribe started the fan-out goroutine
  mcastIf,         \* IP_MULTICAST_IF of the sockets of sockets.go: 0 or the interface selected
  joinOut          \* history: what JoinGroup returned per family and interface, "none" before the call

vars == << conn, recvPc, recvMsg, netIn, msgs, msgsClosed, closeOnce, closeIdx,
           subscribers, subMu, broadcasterOnce, fanPc, fanMsg, fanSubs, fanIdx,
           chBuf, chClosed, chKind, pc, op, ch, question, ctxDone, result,
           seen, opsStarted, panicked, closedMidWait, subs, closed, mu, rcvPc,
           rcvMsg, bIdx, mconnOnce, hubCloseDone, lateSubs, latePubs, due,
           attempts, got, enq, ipVersion, newPc, newErr, bound, joined, ifacesNo,
           closeErrs, snd, wrote, sockPtr, nilUse, fanStarted, mcastIf, joinOut >>

transportVars == << conn, recvPc, recvMsg, netIn, msgs, msgsClosed >>
fanVars       == << fanPc, fanMsg, fanSubs, fanIdx, fanStarted >>
chanVars      == << chBuf, chClosed, chKind >>
callerVars    == << pc, op, ch, question, ctxDone, result, seen, opsStarted,
                    closedMidWait >>

hubVars       == << subs, closed, mu, rcvPc, rcvMsg, bIdx, mconnOnce, hubCloseDone,
                    lateSubs, latePubs, due, attempts, got >>
queryVars     == << question, ctxDone, seen, closedMidWait >>
newVars       == << ipVersion, newPc, newErr, bound, joined, ifacesNo, joinOut >>
sendVars      == << snd, wrote >>
socksVars     == << sockPtr, nilUse, mcastIf >>
socketVars    == << newVars, closeErrs, sendVars, socksVars >>

Range(s) == { s[i] : i \in 1..Len(s) }

\* ---------------------------------------------------------------- Init
\* Nothing has been received, no call has been made on the client, the hub
\* or the transport.
InitIdle ==
  /\ recvMsg = [f \in Families |-> NoMsg]
  /\ netIn = 0
  /\ msgs = << >>
  /\ msgsClosed = FALSE
  /\ closeOnce = "idle"
  /\ closeIdx = 1
  /\ subscribers = << >>
  /\ subMu = FALSE
  /\ broadcasterOnce = FALSE
  /\ fanPc = "off"
  /\ fanMsg = NoMsg
  /\ fanSubs = << >>
  /\ fanIdx = 1
  /\ chBuf = << >>
  /\ chClosed = << >>
  /\ chKind = << >>
  /\ pc = [c \in Callers |-> "idle"]
  /\ op = [c \in Callers |-> "none"]
  /\ ch = [c \in Callers |-> 0]
  /\ question = [c \in Callers |-> NoQuestion]
  /\ ctxDone = [c \in Callers |-> FALSE]
  /\ result = [c \in Callers |-> NoResult]
  /\ seen = [c \in Callers |-> << >>]
  /\ opsStarted = 0
  /\ panicked = "none"
  /\ closedMidWait = [c \in Callers |-> FALSE]
  /\ subs = << >>
  /\ closed = FALSE
  /\ mu = FALSE
  /\ rcvMsg = NoMsg
  /\ bIdx = 1
  /\ mconnOnce = "idle"
  /\ hubCloseDone = FALSE
  /\ lateSubs = {}
  /\ latePubs = {}
  /\ due = {}
  /\ attempts = {}
  /\ got = << >>
  /\ enq = 0
  /\ closeErrs = [f \in Families |-> FALSE]
  /\ snd = [c \in Callers |-> NoSend]
  /\ wrote = [c \in Callers |-> {}]
  /\ nilUse = FALSE
  /\ fanStarted = 0
  /\ mcastIf = [f \in Families |-> 0]

\* The state NewClient returns: the transport was created, and one recvLoop per
\* open socket is running.  Both sockets are nil when one family was asked for
\* and its socket could not be set up (newSocket fails only when err4 and err6
\* are both set); the address families are given as the sockets that came up.
InitClient ==
  /\ conn \in [Families -> {"nil", "open"}]
  /\ recvPc = [f \in Families |-> IF conn[f] = "open" THEN "read" ELSE "none"]
  /\ ipVersion = IF \E f \in Families : conn[f] = "open"
                   THEN { f \in Families : conn[f] = "open" } ELSE {4}
  /\ newPc = "ready"
  /\ newErr = [f \in Families |-> f \in ipVersion /\ conn[f] = "nil"]
  /\ bound = [f \in Families |-> conn[f] = "open"]
  /\ joined = [f \in Families |-> IF conn[f] = "open" THEN NumIfaces ELSE 0]
  /\ ifacesNo = [f \in Families |-> {}]
  /\ joinOut = [f \in Families |->
                 [i \in Ifaces |-> IF conn[f] = "open" THEN "joined" ELSE "none"]]
  /\ sockPtr = [f \in Families |-> IF conn[f] = "open" THEN "set" ELSE "nil"]
  /\ InitIdle

\* NewClient of client.go: the fan-out goroutine does not exist yet.
Init == InitClient /\ rcvPc = "none"

\* NewClient of the hub-based client: newSockets was asked for both families and
\* fails when both ListenUDP calls fail, so a socket is open; c.wg.Go(c.receiving)
\* has started the receiving goroutine.
InitHub ==
  /\ InitClient
  /\ \E f \in Families : conn[f] = "open"
  /\ rcvPc = "recv"

Alive == panicked = "none"

\* A caller goroutine may start an operation; callers are interchangeable, so
\* caller c makes its first call only after the callers below it made theirs.
CanStart(c) ==
  /\ Alive
  /\ pc[c] \in {"idle", "done"}
  /\ opsStarted < MaxOps
  /\ \A d \in Callers : d < c => op[d] # "none"

\* The locals of a caller's previous operation are gone when it starts the next.
ResetLocals(c) ==
  /\ question' = [question EXCEPT ![c] = NoQuestion]
  /\ ctxDone' = [ctxDone EXCEPT ![c] = FALSE]
  /\ seen' = [seen EXCEPT ![c] = << >>]

\* ---------------------------------------------------------------- receive path
\* What one ReadFromUDP call can return while the socket is open: a read error
\* other than net.ErrClosed, a datagram msg.Unpack rejects, or a datagram that
\* decodes to a message with one of the answer sections of Bodies.
ReadOutcomes ==
  { [kind |-> k, body |-> 1] : k \in {"readerr", "garbage"} }
    \cup { [kind |-> "msg", body |-> b] : b \in BodyIds }

\* select { case msgCh <- msg: default: } on a buffered channel of capacity cap
TrySend(buf, cap, m) == IF Len(buf) < cap THEN Append(buf, m) ELSE buf

\* recvLoop: conn.ReadFromUDP returned while the socket was open; a read error
\* and an undecodable datagram `continue`, a decoded message goes on to the select.
\* With hist the message carries, as history, the number of channels Subscribe
\* had made when the read returned.
RecvRead(f, limit, hist) ==
  /\ Alive
  /\ recvPc[f] = "read"
  /\ conn[f] = "open"
  /\ netIn < limit
  /\ \E d \in ReadOutcomes :
       /\ netIn' = netIn + 1
       /\ IF d.kind = "msg"
            THEN /\ recvMsg' = [recvMsg EXCEPT ![f] = [id |-> netIn + 1, body |-> d.body,
                                                      seq |-> 0,
                                                      chans |-> IF hist THEN Len(chBuf) ELSE 0]]
                 /\ recvPc' = [recvPc EXCEPT ![f] = "enqueue"]
            ELSE UNCHANGED << recvMsg, recvPc >>
  /\ UNCHANGED << conn, msgs, msgsClosed, closeOnce, closeIdx, subscribers, subMu,
                  broadcasterOnce, fanVars, chanVars, callerVars, panicked >>
  /\ UNCHANGED << hubVars, socketVars, enq >>

\* recvLoop: the non-blocking send of the decoded message to msgCh.
RecvEnqueue(f) ==
  /\ Alive
  /\ recvPc[f] = "enqueue"
  /\ IF msgsClosed
       THEN /\ panicked' = "send on closed msgs"
            /\ UNCHANGED << msgs, enq >>
       ELSE /\ msgs' = TrySend(msgs, MsgsCap, [recvMsg[f] EXCEPT !.seq = enq + 1])
            /\ enq' = IF Len(msgs) < MsgsCap THEN enq + 1 ELSE enq
            /\ UNCHANGED panicked
  /\ recvPc' = [recvPc EXCEPT ![f] = "read"]
  /\ recvMsg' = [recvMsg EXCEPT ![f] = NoMsg]
  /\ UNCHANGED << conn, netIn, msgsClosed, closeOnce, closeIdx, subscribers, subMu,
                  broadcasterOnce, fanVars, chanVars, callerVars >>
  /\ UNCHANGED << hubVars, socketVars >>

\* recvLoop: ReadFromUDP fails with net.ErrClosed and the loop returns.
RecvClosed(f) ==
  /\ Alive
  /\ recvPc[f] = "read"
  /\ conn[f] = "closed"
  /\ recvPc' = [recvPc EXCEPT ![f] = "exited"]
  /\ UNCHANGED << conn, recvMsg, netIn, msgs, msgsClosed, closeOnce, closeIdx,
                  subscribers, subMu, broadcasterOnce, fanVars, chanVars,
                  callerVars, panicked >>
  /\ UNCHANGED << hubVars, socketVars, enq >>

\* c.wg of mdnsConn: no recvLoop is running.
RecvLoopsDone == \A f \in Families : recvPc[f] \in {"none", "exited"}

\* ---------------------------------------------------------------- channels
\* close(sub): closing a closed channel panics.
CloseChan(k) ==
  IF chClosed[k]
    THEN /\ panicked' = "close of closed channel"
         /\ UNCHANGED chClosed
    ELSE /\ chClosed' = [chClosed EXCEPT ![k] = TRUE]
         /\ UNCHANGED panicked

\* select { case sub <- msg: default: }: a send on a closed channel panics,
\* a full channel takes the default branch.
SendOrDrop(k, m) ==
  IF chClosed[k]
    THEN /\ panicked' = "send on closed channel"
         /\ UNCHANGED chBuf
    ELSE /\ chBuf' = [chBuf EXCEPT ![k] = TrySend(chBuf[k], SubCap, m)]
         /\ UNCHANGED panicked

\* ch := make(chan *dns.Msg, 32)
MakeChan(kind) ==
  /\ chBuf' = Append(chBuf, << >>)
  /\ chClosed' = Append(chClosed, FALSE)
  /\ chKind' = Append(chKind, kind)

clientVars == << closeOnce, closeIdx, subscribers, subMu, broadcasterOnce >>

\* ---------------------------------------------------------------- client.Close
\* The callers blocked in msgCh's select with nothing to read when Close is called.
BlockedInWait(q) ==
  /\ pc[q] = "qf_wait"
  /\ ~ctxDone[q]
  /\ chBuf[ch[q]] = << >>
  /\ ~chClosed[ch[q]]

\* c.closeOnce.Do(...): the first caller runs the function, a caller that
\* arrives while it runs waits for it, a later caller returns at once.
CloseEnter(c) ==
  /\ CanStart(c)
  /\ opsStarted' = opsStarted + 1
  /\ op' = [op EXCEPT ![c] = "Close"]
  /\ closedMidWait' = [q \in Callers |->
                          IF q = c THEN FALSE ELSE closedMidWait[q] \/ BlockedInWait(q)]
  /\ ResetLocals(c)
  /\ ch' = [ch EXCEPT ![c] = 0]
  /\ result' = [result EXCEPT ![c] = IF closeOnce = "done" THEN Result("nil") ELSE NoResult]
  /\ pc' = [pc EXCEPT ![c] = CASE closeOnce = "idle"    -> "close_socket"
                               [] closeOnce = "running" -> "close_oncewait"
                               [] OTHER                 -> "done"]
  /\ closeOnce' = IF closeOnce = "idle" THEN "running" ELSE closeOnce
  /\ UNCHANGED << transportVars, closeIdx, subscribers, subMu, broadcasterOnce,
                  fanVars, chanVars, panicked >>
  /\ UNCHANGED << hubVars, socketVars, enq >>

\* errors.Join(err4, err6): nil when both are nil
Join(errs) == IF \E f \in Families : errs[f] THEN "err" ELSE "nil"

\* Mutant of CloseSocket: socket.close also empties s.ifacesNoIPv4 / s.ifacesNoIPv6.
CloseSocket_ClearMaps(c) ==
  /\ Alive
  /\ pc[c] = "close_socket"
  /\ conn' = [f \in Families |-> IF conn[f] = "nil" THEN "nil" ELSE "closed"]
  /\ \E errs \in [Families -> BOOLEAN] :
       /\ \A f \in Families : conn[f] = "nil" => ~errs[f]
       /\ closeErrs' = errs
  /\ pc' = [pc EXCEPT ![c] = "close_wait"]
  /\ UNCHANGED << recvPc, recvMsg, netIn, msgs, msgsClosed, clientVars, fanVars,
                  chanVars, op, ch, question, ctxDone, result, seen, opsStarted,
                  closedMidWait, panicked >>
  /\ ifacesNo' = [f \in Families |-> {}]
  /\ UNCHANGED << hubVars, ipVersion, newPc, newErr, bound, joined, joinOut, sendVars,
                  socksVars, enq >>

\* c.t.Close() -> mdnsConn.Close -> socket.close: err4 = s.conn4.Close() when
\* conn4 is not nil, and the same for conn6; either Close may return an error.
CloseSocket(c) ==
  /\ Alive
  /\ pc[c] = "close_socket"
  /\ conn' = [f \in Families |-> IF conn[f] = "nil" THEN "nil" ELSE "closed"]
  /\ \E errs \in [Families -> BOOLEAN] :
       /\ \A f \in Families : conn[f] = "nil" => ~errs[f]
       /\ closeErrs' = errs
  /\ pc' = [pc EXCEPT ![c] = "close_wait"]
  /\ UNCHANGED << recvPc, recvMsg, netIn, msgs, msgsClosed, clientVars, fanVars,
                  chanVars, op, ch, question, ctxDone, result, seen, opsStarted,
                  closedMidWait, panicked >>
  /\ UNCHANGED << hubVars, newVars, sendVars, socksVars, enq >>

\* Mutant of CloseWait: close(c.msgs) without c.wg.Wait() before it.
CloseWait_NoJoin(c) ==
  /\ Alive
  /\ pc[c] = "close_wait"
  /\ IF msgsClosed
       THEN panicked' = "close of closed msgs" /\ UNCHANGED msgsClosed
       ELSE msgsClosed' = TRUE /\ UNCHANGED panicked
  /\ result' = [result EXCEPT ![c] = Result(Join(closeErrs))]
  /\ pc' = [pc EXCEPT ![c] = "close_lock"]
  /\ UNCHANGED << conn, recvPc, recvMsg, netIn, msgs, clientVars, fanVars, chanVars,
                  op, ch, question, ctxDone, seen, opsStarted, closedMidWait >>
  /\ UNCHANGED << hubVars, socketVars, enq >>

\* mdnsConn.Close after socket.close: c.wg.Wait() returns once every recvLoop
\* has returned, then close(c.msgs), which panics on a closed channel; err is
\* what socket.close returned.
CloseWait(c) ==
  /\ Alive
  /\ pc[c] = "close_wait"
  /\ RecvLoopsDone
  /\ IF msgsClosed
       THEN panicked' = "close of closed msgs" /\ UNCHANGED msgsClosed
       ELSE msgsClosed' = TRUE /\ UNCHANGED panicked
  /\ result' = [result EXCEPT ![c] = Result(Join(closeErrs))]
  /\ pc' = [pc EXCEPT ![c] = "close_lock"]
  /\ UNCHANGED << conn, recvPc, recvMsg, netIn, msgs, clientVars, fanVars, chanVars,
                  op, ch, question, ctxDone, seen, opsStarted, closedMidWait >>
  /\ UNCHANGED << hubVars, socketVars, enq >>

\* c.subMu.Lock() in Close
CloseLock(c) ==
  /\ Alive
  /\ pc[c] = "close_lock"
  /\ ~subMu
  /\ subMu' = TRUE
  /\ closeIdx' = 1
  /\ pc' = [pc EXCEPT ![c] = "close_subs"]
  /\ UNCHANGED << transportVars, closeOnce, subscribers, broadcasterOnce, fanVars,
                  chanVars, op, ch, question, ctxDone, result, seen, opsStarted,
                  closedMidWait, panicked >>
  /\ UNCHANGED << hubVars, socketVars, enq >>

\* Mutant of CloseSubs: c.subscribers is not reset after its channels were closed.
CloseSubs_KeepList(c) ==
  /\ Alive
  /\ pc[c] = "close_subs"
  /\ IF closeIdx <= Len(subscribers)
       THEN /\ CloseChan(subscribers[closeIdx])
            /\ closeIdx' = closeIdx + 1
            /\ UNCHANGED << subscribers, subMu, closeOnce, pc >>
       ELSE /\ subMu' = FALSE
            /\ closeOnce' = "done"
            /\ pc' = [pc EXCEPT ![c] = "done"]
            /\ UNCHANGED << subscribers, closeIdx, chClosed, panicked >>
  /\ UNCHANGED << transportVars, broadcasterOnce, fanVars, chBuf, chKind, op, ch,
                  question, ctxDone, result, seen, opsStarted, closedMidWait >>
  /\ UNCHANGED << hubVars, socketVars, enq >>

\* for _, sub := range c.subscribers { close(sub) }; c.subscribers = nil;
\* c.subMu.Unlock(); the Once is done and Close returns.
CloseSubs(c) ==
  /\ Alive
  /\ pc[c] = "close_subs"
  /\ IF closeIdx <= Len(subscribers)
       THEN /\ CloseChan(subscribers[closeIdx])
            /\ closeIdx' = closeIdx + 1
            /\ UNCHANGED << subscribers, subMu, closeOnce, pc >>
       ELSE /\ subscribers' = << >>
            /\ subMu' = FALSE
            /\ closeOnce' = "done"
            /\ pc' = [pc EXCEPT ![c] = "done"]
            /\ UNCHANGED << closeIdx, chClosed, panicked >>
  /\ UNCHANGED << transportVars, broadcasterOnce, fanVars, chBuf, chKind, op, ch,
                  question, ctxDone, result, seen, opsStarted, closedMidWait >>
  /\ UNCHANGED << hubVars, socketVars, enq >>

\* Mutant of CloseOnceWait: the waiting caller returns the error of the teardown.
CloseOnceWait_SharedErr(c) ==
  /\ Alive
  /\ pc[c] = "close_oncewait"
  /\ closeOnce = "done"
  /\ result' = [result EXCEPT ![c] = Result(Join(closeErrs))]
  /\ pc' = [pc EXCEPT ![c] = "done"]
  /\ UNCHANGED << transportVars, clientVars, fanVars, chanVars, op, ch, question,
                  ctxDone, seen, opsStarted, closedMidWait, panicked >>
  /\ UNCHANGED << hubVars, socketVars, enq >>

\* A caller that waited in closeOnce.Do returns once the first call is done;
\* its err is the zero value.
CloseOnceWait(c) ==
  /\ Alive
  /\ pc[c] = "close_oncewait"
  /\ closeOnce = "done"
  /\ result' = [result EXCEPT ![c] = Result("nil")]
  /\ pc' = [pc EXCEPT ![c] = "done"]
  /\ UNCHANGED << transportVars, clientVars, fanVars, chanVars, op, ch, question,
                  ctxDone, seen, opsStarted, closedMidWait, panicked >>
  /\ UNCHANGED << hubVars, socketVars, enq >>

\* Mutant of SubAppend: the channel is made and returned without being appended
\* to c.subscribers.
SubAppend_Unregistered(c, kind) ==
  /\ ~subMu
  /\ MakeChan(kind)
  /\ ch' = [ch EXCEPT ![c] = Len(chBuf) + 1]
  /\ UNCHANGED subscribers
  /\ pc' = [pc EXCEPT ![c] = "sub_once"]

\* ---------------------------------------------------------------- client.Subscribe
\* Subscribe, first half: ch := make(chan *dns.Msg, 32); c.subMu.Lock();
\* c.subscribers = append(c.subscribers, ch); c.subMu.Unlock().  Making the
\* channel is local to the caller, so it is one step with the append.
SubAppend(c, kind) ==
  /\ ~subMu
  /\ MakeChan(kind)
  /\ ch' = [ch EXCEPT ![c] = Len(chBuf) + 1]
  /\ subscribers' = Append(subscribers, Len(chBuf) + 1)
  /\ pc' = [pc EXCEPT ![c] = "sub_once"]

\* A caller calls Subscribe.
SubscribeStart(c) ==
  /\ CanStart(c)
  /\ opsStarted' = opsStarted + 1
  /\ op' = [op EXCEPT ![c] = "Subscribe"]
  /\ ResetLocals(c)
  /\ closedMidWait' = [closedMidWait EXCEPT ![c] = FALSE]
  /\ result' = [result EXCEPT ![c] = NoResult]
  /\ SubAppend(c, "Subscribe")
  /\ UNCHANGED << transportVars, closeOnce, closeIdx, subMu, broadcasterOnce,
                  fanVars, panicked >>
  /\ UNCHANGED << hubVars, socketVars, enq >>

\* A caller calls QueryFirst with a question and a context that has not fired
\* yet; its first statement with an effect is msgCh := c.Subscribe().
QueryFirstStart(c, q) ==
  /\ CanStart(c)
  /\ opsStarted' = opsStarted + 1
  /\ op' = [op EXCEPT ![c] = "QueryFirst"]
  /\ question' = [question EXCEPT ![c] = q]
  /\ ctxDone' = [ctxDone EXCEPT ![c] = FALSE]
  /\ seen' = [seen EXCEPT ![c] = << >>]
  /\ closedMidWait' = [closedMidWait EXCEPT ![c] = FALSE]
  /\ result' = [result EXCEPT ![c] = NoResult]
  /\ SubAppend(c, "QueryFirst")
  /\ UNCHANGED << transportVars, closeOnce, closeIdx, subMu, broadcasterOnce,
                  fanVars, panicked >>
  /\ UNCHANGED << hubVars, socketVars, enq >>

\* SubOnce with `go func()` outside broadcasterOnce.Do: every Subscribe starts
\* the fan-out goroutine.
SubOnce_NoOnce(c) ==
  /\ Alive
  /\ pc[c] = "sub_once"
  /\ broadcasterOnce' = TRUE
  /\ fanPc' = IF FALSE THEN fanPc ELSE "recv"
  /\ fanStarted' = IF FALSE THEN fanStarted ELSE fanStarted + 1
  /\ IF op[c] = "Subscribe"
       THEN /\ pc' = [pc EXCEPT ![c] = "done"]
            /\ result' = [result EXCEPT ![c] = Result("chan")]
       ELSE /\ pc' = [pc EXCEPT ![c] = "qf_send"]
            /\ UNCHANGED result
  /\ UNCHANGED << transportVars, closeOnce, closeIdx, subscribers, subMu, fanMsg,
                  fanSubs, fanIdx, chanVars, op, ch, question, ctxDone, seen,
                  opsStarted, closedMidWait, panicked >>
  /\ UNCHANGED << hubVars, socketVars, enq >>

\* c.broadcasterOnce.Do(func() { go func() {...}() }); return ch
SubOnce(c) ==
  /\ Alive
  /\ pc[c] = "sub_once"
  /\ broadcasterOnce' = TRUE
  /\ fanPc' = IF broadcasterOnce THEN fanPc ELSE "recv"
  /\ fanStarted' = IF broadcasterOnce THEN fanStarted ELSE fanStarted + 1
  /\ IF op[c] = "Subscribe"
       THEN /\ pc' = [pc EXCEPT ![c] = "done"]
            /\ result' = [result EXCEPT ![c] = Result("chan")]
       ELSE /\ pc' = [pc EXCEPT ![c] = "qf_send"]
            /\ UNCHANGED result
  /\ UNCHANGED << transportVars, closeOnce, closeIdx, subscribers, subMu, fanMsg,
                  fanSubs, fanIdx, chanVars, op, ch, question, ctxDone, seen,
                  opsStarted, closedMidWait, panicked >>
  /\ UNCHANGED << hubVars, socketVars, enq >>

\* The holder of a channel returned by Subscribe (or by Responses of the
\* hub-based client) receives a buffered message.
Consume(k) ==
  /\ Alive
  /\ chKind[k] \in {"Subscribe", "Responses"}
  /\ \A c \in Callers : ch[c] = k => pc[c] # "sub_once"
  /\ chBuf[k] # << >>
  /\ chBuf' = [chBuf EXCEPT ![k] = Tail(chBuf[k])]
  /\ UNCHANGED << transportVars, clientVars, fanVars, chClosed, chKind, callerVars,
                  panicked, hubVars, socketVars, enq >>

\* ---------------------------------------------------------------- fan-out goroutine
\* Mutant of FanRecv: the message is read from c.t.Messages() without being
\* removed, so the next iteration delivers it again.
FanRecv_Redeliver ==
  /\ Alive
  /\ fanPc = "recv"
  /\ IF msgs # << >>
       THEN /\ fanMsg' = Head(msgs)
            /\ fanPc' = "copy"
            /\ UNCHANGED msgs
       ELSE /\ msgsClosed
            /\ fanPc' = "cleanup_lock"
            /\ UNCHANGED << fanMsg, msgs >>
  /\ UNCHANGED << conn, recvPc, recvMsg, netIn, msgsClosed, clientVars, fanStarted, fanSubs,
                  fanIdx, chanVars, callerVars, panicked >>
  /\ UNCHANGED << hubVars, socketVars, enq >>

\* for msg := range c.t.Messages(): takes the next buffered message, or leaves
\* the loop when the channel is closed and drained.
FanRecv ==
  /\ Alive
  /\ fanPc = "recv"
  /\ IF msgs # << >>
       THEN /\ fanMsg' = Head(msgs)
            /\ msgs' = Tail(msgs)
            /\ fanPc' = "copy"
       ELSE /\ msgsClosed
            /\ fanPc' = "cleanup_lock"
            /\ UNCHANGED << fanMsg, msgs >>
  /\ UNCHANGED << conn, recvPc, recvMsg, netIn, msgsClosed, clientVars, fanStarted, fanSubs,
                  fanIdx, chanVars, callerVars, panicked >>
  /\ UNCHANGED << hubVars, socketVars, enq >>

\* c.subMu.Lock(); subs := copy of c.subscribers; c.subMu.Unlock()
FanCopy ==
  /\ Alive
  /\ fanPc = "copy"
  /\ ~subMu
  /\ fanSubs' = subscribers
  /\ fanIdx' = 1
  /\ fanPc' = IF subscribers = << >> THEN "recv" ELSE "send"
  /\ UNCHANGED << transportVars, clientVars, fanMsg, fanStarted, chanVars, callerVars, panicked >>
  /\ UNCHANGED << hubVars, socketVars, enq >>

\* One iteration of `for _, sub := range subs { select { case sub <- msg: default: } }`
FanSend ==
  /\ Alive
  /\ fanPc = "send"
  /\ SendOrDrop(fanSubs[fanIdx], fanMsg)
  /\ fanIdx' = fanIdx + 1
  /\ fanPc' = IF fanIdx = Len(fanSubs) THEN "recv" ELSE "send"
  /\ UNCHANGED << transportVars, clientVars, fanMsg, fanStarted, fanSubs, chClosed, chKind,
                  callerVars >>
  /\ UNCHANGED << hubVars, socketVars, enq >>

\* c.subMu.Lock() after the range loop ended
FanCleanupLock ==
  /\ Alive
  /\ fanPc = "cleanup_lock"
  /\ ~subMu
  /\ subMu' = TRUE
  /\ fanIdx' = 1
  /\ fanPc' = "cleanup"
  /\ UNCHANGED << transportVars, closeOnce, closeIdx, subscribers, broadcasterOnce,
                  fanMsg, fanStarted, fanSubs, chanVars, callerVars, panicked >>
  /\ UNCHANGED << hubVars, socketVars, enq >>

\* for _, sub := range c.subscribers { close(sub) }; c.subscribers = nil;
\* c.subMu.Unlock(); the goroutine ends.
FanCleanup ==
  /\ Alive
  /\ fanPc = "cleanup"
  /\ IF fanIdx <= Len(subscribers)
       THEN /\ CloseChan(subscribers[fanIdx])
            /\ fanIdx' = fanIdx + 1
            /\ UNCHANGED << subscribers, subMu, fanPc >>
       ELSE /\ subscribers' = << >>
            /\ subMu' = FALSE
            /\ fanPc' = "exited"
            /\ UNCHANGED << fanIdx, chClosed, panicked >>
  /\ UNCHANGED << transportVars, closeOnce, closeIdx, broadcasterOnce, fanMsg, fanStarted,
                  fanSubs, chBuf, chKind, callerVars >>
  /\ UNCHANGED << hubVars, socketVars, enq >>

\* ---------------------------------------------------------------- client.QueryFirst
\* Mutant of Matches: the class is not compared.
Matches_IgnoreClass(ans, q) ==
  /\ ans.Name = q.Name
  /\ ans.Rrtype = q.Qtype

\* ans.Header().Name == question.Name && ans.Header().Rrtype == question.Qtype &&
\* ans.Header().Class == question.Qclass
Matches(ans, q) ==
  /\ ans.Name = q.Name
  /\ ans.Rrtype = q.Qtype
  /\ ans.Class = q.Qclass

\* for _, ans := range resp.Answer { if <matches> { return ans, nil } }:
\* the index of the record the loop returns from i on, 0 when it falls through.
RECURSIVE ScanAnswers(_, _, _)
ScanAnswers(answers, i, q) ==
  IF i > Len(answers) THEN 0
  ELSE IF Matches(answers[i], q) THEN i
  ELSE ScanAnswers(answers, i + 1, q)

\* c.Query(msg) -> c.t.SendMsg(msg): Pack and multicast; it can succeed only
\* while a socket is open, and can fail at any time.
QFSend(c) ==
  /\ Alive
  /\ pc[c] = "qf_send"
  /\ \E ok \in BOOLEAN :
       /\ ok => \E f \in Families : conn[f] = "open"
       /\ IF ok
            THEN /\ pc' = [pc EXCEPT ![c] = "qf_wait"]
                 /\ UNCHANGED result
            ELSE /\ pc' = [pc EXCEPT ![c] = "done"]
                 /\ result' = [result EXCEPT ![c] = Result("send error")]
  /\ UNCHANGED << transportVars, clientVars, fanVars, chanVars, op, ch, question,
                  ctxDone, seen, opsStarted, closedMidWait, panicked >>
  /\ UNCHANGED << hubVars, socketVars, enq >>

\* case resp, ok := <-msgCh with ok: scan resp.Answer, return the first match
\* or go round the loop again.
QFRecv(c) ==
  /\ Alive
  /\ pc[c] = "qf_wait"
  /\ chBuf[ch[c]] # << >>
  /\ LET resp == Head(chBuf[ch[c]])
         i    == ScanAnswers(Answer(resp), 1, question[c])
     IN  /\ chBuf' = [chBuf EXCEPT ![ch[c]] = Tail(chBuf[ch[c]])]
         /\ seen' = [seen EXCEPT ![c] = Append(seen[c], resp)]
         /\ IF i # 0
              THEN /\ result' = [result EXCEPT ![c] = AnswerResult(Answer(resp)[i])]
                   /\ pc' = [pc EXCEPT ![c] = "done"]
              ELSE UNCHANGED << result, pc >>
  /\ UNCHANGED << transportVars, clientVars, fanVars, chClosed, chKind, op, ch,
                  question, ctxDone, opsStarted, closedMidWait, panicked >>
  /\ UNCHANGED << hubVars, socketVars, enq >>

\* case resp, ok := <-msgCh with !ok: the channel is closed and drained.
QFClosed(c) ==
  /\ Alive
  /\ pc[c] = "qf_wait"
  /\ chBuf[ch[c]] = << >>
  /\ chClosed[ch[c]]
  /\ result' = [result EXCEPT ![c] = Result("client closed")]
  /\ pc' = [pc EXCEPT ![c] = "done"]
  /\ UNCHANGED << transportVars, clientVars, fanVars, chanVars, op, ch, question,
                  ctxDone, seen, opsStarted, closedMidWait, panicked >>
  /\ UNCHANGED << hubVars, socketVars, enq >>

\* Mutant of QFDeadline: the deadline failure is returned without ctx having fired.
QFDeadline_Early(c) ==
  /\ Alive
  /\ pc[c] = "qf_wait"
  /\ result' = [result EXCEPT ![c] = Result("deadline")]
  /\ pc' = [pc EXCEPT ![c] = "done"]
  /\ UNCHANGED << transportVars, clientVars, fanVars, chanVars, op, ch, question,
                  ctxDone, seen, opsStarted, closedMidWait, panicked >>
  /\ UNCHANGED << hubVars, socketVars, enq >>

\* case <-ctx.Done(): return nil, ctx.Err()
QFDeadline(c) ==
  /\ Alive
  /\ pc[c] = "qf_wait"
  /\ ctxDone[c]
  /\ result' = [result EXCEPT ![c] = Result("deadline")]
  /\ pc' = [pc EXCEPT ![c] = "done"]
  /\ UNCHANGED << transportVars, clientVars, fanVars, chanVars, op, ch, question,
                  ctxDone, seen, opsStarted, closedMidWait, panicked >>
  /\ UNCHANGED << hubVars, socketVars, enq >>

\* The deadline of the context passed to QueryFirst expires, or it is cancelled.
\* QueryFirst looks at ctx only in its select, so a context that fired earlier
\* is the same as one that fires as the wait begins.
CtxFire(c) ==
  /\ Alive
  /\ pc[c] = "qf_wait"
  /\ ~ctxDone[c]
  /\ ctxDone' = [ctxDone EXCEPT ![c] = TRUE]
  /\ UNCHANGED << transportVars, clientVars, fanVars, chanVars, pc, op, ch, question,
                  result, seen, opsStarted, closedMidWait, panicked >>
  /\ UNCHANGED << hubVars, socketVars, enq >>

\* ================================================================ hub-based client
\* The client built on broadcaster[T]: NewClient starts the receiving goroutine,
\* which broadcasts every message of mdnsConn.messages() through respHub.

\* ---------------------------------------------------------------- broadcaster
\* Mutant of subscribe: b.closed is not checked.
subscribe_NoClosedCheck ==
  /\ chBuf' = Append(chBuf, << >>)
  /\ chClosed' = Append(chClosed, FALSE)
  /\ subs' = Append(subs, Len(chBuf) + 1)

\* broadcaster.subscribe, under b.mu: on a closed hub make(chan T) and close it,
\* otherwise make(chan T, 1) and append it to b.subs.
subscribe ==
  /\ chBuf' = Append(chBuf, << >>)
  /\ IF closed
       THEN /\ chClosed' = Append(chClosed, TRUE)
            /\ UNCHANGED subs
       ELSE /\ chClosed' = Append(chClosed, FALSE)
            /\ subs' = Append(subs, Len(chBuf) + 1)

\* Mutant of close: b.closed is never set.
close_NoFlag ==
  /\ chClosed' = [k \in 1..Len(chClosed) |-> chClosed[k] \/ k \in Range(subs)]
  /\ subs' = << >>
  /\ UNCHANGED closed

\* broadcaster.close, under b.mu: return if already closed, else close every
\* channel of b.subs, b.subs = nil, b.closed = true.
close ==
  IF closed
    THEN UNCHANGED << chClosed, subs, closed >>
    ELSE /\ chClosed' = [k \in 1..Len(chClosed) |-> chClosed[k] \/ k \in Range(subs)]
         /\ subs' = << >>
         /\ closed' = TRUE

\* Mutant of broadcastStep: the loop ends at the first subscriber whose queue is full.
broadcastStep_StopAtFull ==
  LET k == subs[bIdx] IN
  /\ chBuf' = [chBuf EXCEPT ![k] = TrySend(chBuf[k], HubCap, rcvMsg)]
  /\ UNCHANGED panicked
  /\ bIdx' = bIdx + 1
  /\ IF bIdx = Len(subs) \/ Len(chBuf[k]) >= HubCap
       THEN mu' = FALSE /\ rcvPc' = "recv"
       ELSE UNCHANGED << mu, rcvPc >>

\* broadcaster.broadcast, one iteration of
\* `for _, ch := range b.subs { select { case ch <- msg: default: } }`;
\* the deferred b.mu.Unlock() runs after the last one.
broadcastStep ==
  LET k == subs[bIdx] IN
  /\ IF chClosed[k]
       THEN /\ panicked' = "send on closed channel"
            /\ UNCHANGED chBuf
       ELSE /\ chBuf' = [chBuf EXCEPT ![k] = TrySend(chBuf[k], HubCap, rcvMsg)]
            /\ UNCHANGED panicked
  /\ bIdx' = bIdx + 1
  /\ IF bIdx = Len(subs)
       THEN mu' = FALSE /\ rcvPc' = "recv"
       ELSE UNCHANGED << mu, rcvPc >>

\* ---------------------------------------------------------------- client.Responses
\* Responses: return c.respHub.subscribe()
Responses(c) ==
  /\ CanStart(c)
  /\ ~mu
  /\ opsStarted' = opsStarted + 1
  /\ op' = [op EXCEPT ![c] = "Responses"]
  /\ subscribe
  /\ chKind' = Append(chKind, "Responses")
  /\ got' = Append(got, << >>)
  /\ lateSubs' = IF hubCloseDone THEN lateSubs \cup {Len(chBuf) + 1} ELSE lateSubs
  /\ ch' = [ch EXCEPT ![c] = Len(chBuf) + 1]
  /\ result' = [result EXCEPT ![c] = Result("chan")]
  /\ pc' = [pc EXCEPT ![c] = "done"]
  /\ UNCHANGED << transportVars, clientVars, fanVars, socketVars, enq, queryVars, panicked, closed, mu,
                  rcvPc, rcvMsg, bIdx, mconnOnce, hubCloseDone, latePubs, due, attempts >>

\* ---------------------------------------------------------------- client.Close (hub)
\* Close, first statement: c.respHub.close()
HubCloseStart(c) ==
  /\ CanStart(c)
  /\ ~mu
  /\ opsStarted' = opsStarted + 1
  /\ op' = [op EXCEPT ![c] = "HubClose"]
  /\ close
  /\ hubCloseDone' = TRUE
  /\ ch' = [ch EXCEPT ![c] = 0]
  /\ result' = [result EXCEPT ![c] = NoResult]
  /\ pc' = [pc EXCEPT ![c] = "h_conn"]
  /\ UNCHANGED << transportVars, clientVars, fanVars, socketVars, enq, queryVars, panicked, chBuf, chKind,
                  mu, rcvPc, rcvMsg, bIdx, mconnOnce, lateSubs, latePubs, due,
                  attempts, got >>

\* c.mdnsConn.close() -> mconn.closeOnce.Do: the first caller runs
\* mconn.sockets.close(), which closes conn4 and conn6 when they are not nil;
\* a caller arriving meanwhile waits, a later one passes.
HubCloseConn(c) ==
  /\ Alive
  /\ pc[c] = "h_conn"
  /\ IF mconnOnce = "idle"
       THEN /\ mconnOnce' = "running"
            /\ conn' = [f \in Families |-> IF conn[f] = "nil" THEN "nil" ELSE "closed"]
            /\ pc' = [pc EXCEPT ![c] = "h_wgwait"]
       ELSE /\ pc' = [pc EXCEPT ![c] = IF mconnOnce = "running" THEN "h_oncewait"
                                                               ELSE "h_join"]
            /\ UNCHANGED << mconnOnce, conn >>
  /\ UNCHANGED << recvPc, recvMsg, netIn, msgs, msgsClosed, clientVars, fanVars, socketVars, enq,
                  chanVars, op, ch, result, opsStarted, queryVars, panicked, subs,
                  closed, mu, rcvPc, rcvMsg, bIdx, hubCloseDone, lateSubs, latePubs,
                  due, attempts, got >>

\* mconn.wg.Wait() returns once every recvLoop has returned; close(mconn.msgCh);
\* the Once is done.
HubCloseWait(c) ==
  /\ Alive
  /\ pc[c] = "h_wgwait"
  /\ RecvLoopsDone
  /\ msgsClosed' = TRUE
  /\ mconnOnce' = "done"
  /\ pc' = [pc EXCEPT ![c] = "h_join"]
  /\ UNCHANGED << conn, recvPc, recvMsg, netIn, msgs, clientVars, fanVars, socketVars, enq, chanVars,
                  op, ch, result, opsStarted, queryVars, panicked, subs, closed, mu,
                  rcvPc, rcvMsg, bIdx, hubCloseDone, lateSubs, latePubs, due,
                  attempts, got >>

\* A caller that waited in mconn.closeOnce.Do goes on once the Once is done.
HubOnceWait(c) ==
  /\ Alive
  /\ pc[c] = "h_oncewait"
  /\ mconnOnce = "done"
  /\ pc' = [pc EXCEPT ![c] = "h_join"]
  /\ UNCHANGED << transportVars, clientVars, fanVars, socketVars, enq, chanVars, op, ch, result,
                  opsStarted, queryVars, panicked, hubVars >>

\* c.wg.Wait() returns once the receiving goroutine has returned; return err
\* (mdnsConn.close always returns nil).
HubJoin(c) ==
  /\ Alive
  /\ pc[c] = "h_join"
  /\ rcvPc = "exited"
  /\ result' = [result EXCEPT ![c] = Result("nil")]
  /\ pc' = [pc EXCEPT ![c] = "done"]
  /\ UNCHANGED << transportVars, clientVars, fanVars, socketVars, enq, chanVars, op, ch, opsStarted,
                  queryVars, panicked, hubVars >>

\* ---------------------------------------------------------------- client.receiving
\* msg, ok := <-msgs; if !ok { return }
RcvTake ==
  /\ Alive
  /\ rcvPc = "recv"
  /\ IF msgs # << >>
       THEN /\ rcvMsg' = Head(msgs)
            /\ msgs' = Tail(msgs)
            /\ rcvPc' = "lock"
       ELSE /\ msgsClosed
            /\ rcvPc' = "exited"
            /\ UNCHANGED << rcvMsg, msgs >>
  /\ UNCHANGED << conn, recvPc, recvMsg, netIn, msgsClosed, clientVars, fanVars, socketVars, enq,
                  chanVars, callerVars, panicked, subs, closed, mu, bIdx, mconnOnce,
                  hubCloseDone, lateSubs, latePubs, due, attempts, got >>

\* c.respHub.broadcast(msg): b.mu.Lock(); if b.closed { return }; an empty
\* b.subs ends the call as well.
BroadcastLock ==
  /\ Alive
  /\ rcvPc = "lock"
  /\ ~mu
  /\ IF closed \/ subs = << >>
       THEN /\ rcvPc' = "recv"
            /\ UNCHANGED << mu, bIdx, due >>
       ELSE /\ mu' = TRUE
            /\ bIdx' = 1
            /\ rcvPc' = "broadcast"
            /\ due' = due \cup { << rcvMsg.id, k >> : k \in Range(subs) }
  /\ latePubs' = IF hubCloseDone THEN latePubs \cup {rcvMsg.id} ELSE latePubs
  /\ UNCHANGED << transportVars, clientVars, fanVars, socketVars, enq, chanVars, callerVars, panicked,
                  subs, closed, rcvMsg, mconnOnce, hubCloseDone, lateSubs, attempts,
                  got >>

\* Mutant of BroadcastSend: `ch <- msg` without the default case, which waits
\* for room in the subscriber's queue.
BroadcastSend_Blocking ==
  /\ Alive
  /\ rcvPc = "broadcast"
  /\ Len(chBuf[subs[bIdx]]) < HubCap
  /\ broadcastStep
  /\ LET k == subs[bIdx] IN
       /\ attempts' = attempts \cup
            { [id |-> rcvMsg.id, ch |-> k, wasFull |-> Len(chBuf[k]) >= HubCap] }
       /\ got' = [got EXCEPT ![k] = IF chBuf'[k] # chBuf[k]
                                      THEN Append(@, rcvMsg.id) ELSE @]
  /\ UNCHANGED << transportVars, clientVars, fanVars, socketVars, enq, chClosed, chKind,
                  callerVars, subs, closed, rcvMsg, mconnOnce, hubCloseDone, lateSubs,
                  latePubs, due >>

\* One iteration of broadcast's loop, with what it attempted and what it enqueued.
BroadcastSend ==
  /\ Alive
  /\ rcvPc = "broadcast"
  /\ broadcastStep
  /\ LET k == subs[bIdx] IN
       /\ attempts' = attempts \cup
            { [id |-> rcvMsg.id, ch |-> k, wasFull |-> Len(chBuf[k]) >= HubCap] }
       /\ got' = [got EXCEPT ![k] = IF chBuf'[k] # chBuf[k]
                                      THEN Append(@, rcvMsg.id) ELSE @]
  /\ UNCHANGED << transportVars, clientVars, fanVars, socketVars, enq, chClosed, chKind, callerVars,
                  subs, closed, rcvMsg, mconnOnce, hubCloseDone, lateSubs, latePubs,
                  due >>

\* ---------------------------------------------------------------- mdnsConn.recvLoop
\* mdnsConn.recvLoop (mdns_conn.go): ReadFromUDP returned while the socket was
\* open; any read error ends the loop, an undecodable datagram is skipped.
HubRecvRead(f) ==
  /\ Alive
  /\ recvPc[f] = "read"
  /\ conn[f] = "open"
  /\ netIn < MaxRecvH
  /\ \E d \in ReadOutcomes :
       /\ netIn' = netIn + 1
       /\ CASE d.kind = "msg" ->
                 /\ recvMsg' = [recvMsg EXCEPT ![f] = [id |-> netIn + 1, body |-> d.body,
                                                      seq |-> 0, chans |-> 0]]
                 /\ recvPc' = [recvPc EXCEPT ![f] = "enqueue"]
            [] d.kind = "readerr" ->
                 /\ recvPc' = [recvPc EXCEPT ![f] = "exited"]
                 /\ UNCHANGED recvMsg
            [] OTHER -> UNCHANGED << recvMsg, recvPc >>
  /\ UNCHANGED << conn, msgs, msgsClosed, clientVars, fanVars, socketVars, enq, chanVars, callerVars,
                  panicked, hubVars >>

\* mconn.msgCh <- &msg: a blocking send, taken when the buffer has room.
HubRecvEnqueue(f) ==
  /\ Alive
  /\ recvPc[f] = "enqueue"
  /\ IF msgsClosed
       THEN /\ panicked' = "send on closed msgs"
            /\ UNCHANGED << msgs, enq >>
       ELSE /\ Len(msgs) < MsgsCap
            /\ msgs' = Append(msgs, [recvMsg[f] EXCEPT !.seq = enq + 1])
            /\ enq' = enq + 1
            /\ UNCHANGED panicked
  /\ recvPc' = [recvPc EXCEPT ![f] = "read"]
  /\ recvMsg' = [recvMsg EXCEPT ![f] = NoMsg]
  /\ UNCHANGED << conn, netIn, msgsClosed, clientVars, fanVars, socketVars, chanVars,
                  callerVars, hubVars >>

NextHub ==
  \/ \E f \in Families : HubRecvRead(f)
  \/ \E f \in Families : HubRecvEnqueue(f)
  \/ \E f \in Families : RecvClosed(f)
  \/ \E c \in Callers : Responses(c)
  \/ \E c \in Callers : HubCloseStart(c)
  \/ \E c \in Callers : HubCloseConn(c)
  \/ \E c \in Callers : HubCloseWait(c)
  \/ \E c \in Callers : HubOnceWait(c)
  \/ \E c \in Callers : HubJoin(c)
  \/ \E k \in 1..Len(chBuf) : Consume(k)
  \/ RcvTake
  \/ BroadcastLock
  \/ BroadcastSend

HubSpec == InitHub /\ [][NextHub]_vars

\* Fairness for HubSpec: the Go scheduler runs every goroutine that can take a
\* step, so the receiving goroutine and the recvLoops are not starved.  The
\* holders of subscriber channels are under no obligation to receive.
FairHubSpec ==
  /\ HubSpec
  /\ WF_vars(RcvTake)
  /\ WF_vars(BroadcastLock)
  /\ WF_vars(BroadcastSend)
  /\ \A f \in Families : WF_vars(HubRecvEnqueue(f))

\* ================================================================ transport
\* transport.New -> newConn -> newSocket -> newUDP4Conn / newUDP6Conn, then
\* startRecvLoop; SendMsg -> socket.multicast and SendMsgTo -> socket.unicast.

\* Options.IPVersion: IPv4, IPv6 or IPv4And6
IPVersions == (SUBSET Families) \ {{}}

\* What v4conn.JoinGroup(&iface, ...) leads to on one interface: it joins; it
\* fails and interfaceIPVersion reports no address of the family on the
\* interface; it fails on an interface that has such an address.
JoinOutcomes == {"joined", "noaddr", "failed"}

\* `joined` after the loop over s.ifaces, from interface i on
RECURSIVE CountJoined(_, _)
CountJoined(j, i) ==
  IF i > NumIfaces THEN 0
  ELSE (IF j[i] = "joined" THEN 1 ELSE 0) + CountJoined(j, i + 1)

\* newUDP4Conn / newUDP6Conn: net.ListenUDP fails and the error is returned; or
\* the packet conn is stored in s.connIPv4, every interface is asked to join
\* the group, and s.conn4 is set only when at least one joined: with joined == 0
\* an error is returned and s.conn4 stays nil (the listening socket is not closed).
newUDPConn(f) ==
  \E listen \in BOOLEAN :
    IF ~listen
      THEN /\ newErr' = [newErr EXCEPT ![f] = TRUE]
           /\ UNCHANGED << conn, bound, joined, ifacesNo, joinOut >>
      ELSE \E j \in [Ifaces -> JoinOutcomes] :
             /\ bound' = [bound EXCEPT ![f] = TRUE]
             /\ joinOut' = [joinOut EXCEPT ![f] = j]
             /\ ifacesNo' = [ifacesNo EXCEPT ![f] = { i \in Ifaces : j[i] = "noaddr" }]
             /\ joined' = [joined EXCEPT ![f] = CountJoined(j, 1)]
             /\ IF CountJoined(j, 1) = 0
                  THEN /\ newErr' = [newErr EXCEPT ![f] = TRUE]
                       /\ UNCHANGED conn
                  ELSE /\ conn' = [conn EXCEPT ![f] = "open"]
                       /\ UNCHANGED newErr

\* The UDP socket net.ListenUDP opened for family f is open: it was opened by
\* newUDP4Conn / newUDP6Conn, and the one Close on it anywhere in the transport
\* is s.conn4.Close() / s.conn6.Close() in socket.close, which needs s.conn4 /
\* s.conn6 to be set.
SocketOpen(f) == bound[f] /\ conn[f] # "closed"

\* newSocket: if opts.IPVersion&IPv4 != 0 { err4 = s.newUDP4Conn(addr4) }, and
\* the same statement for IPv6 after it.
NewSocketFamily(f) ==
  /\ newPc = (IF f = 4 THEN "udp4" ELSE "udp6")
  /\ IF f \in ipVersion
       THEN newUDPConn(f)
       ELSE UNCHANGED << conn, newErr, bound, joined, ifacesNo, joinOut >>
  /\ newPc' = (IF f = 4 THEN "udp6" ELSE "decide")
  /\ UNCHANGED << recvPc, recvMsg, netIn, msgs, msgsClosed, clientVars, fanVars,
                  chanVars, callerVars, panicked, hubVars, enq, ipVersion, closeErrs,
                  sendVars, socksVars >>

\* newSocket: if err4 != nil && err6 != nil { return nil, errors.Join(err4, err6) };
\* otherwise the socket is returned and newConn makes c.msgs.
NewSocketReturn ==
  /\ newPc = "decide"
  /\ newPc' = (IF newErr[4] /\ newErr[6] THEN "failed" ELSE "start")
  /\ UNCHANGED << transportVars, clientVars, fanVars, chanVars, callerVars, panicked,
                  hubVars, enq, ipVersion, newErr, bound, joined, ifacesNo, joinOut,
                  closeErrs,
                  sendVars, socksVars >>

\* startRecvLoop: a recvLoop goroutine for every socket that is not nil; newConn
\* and transport.New return the transport.
StartRecvLoop ==
  /\ newPc = "start"
  /\ recvPc' = [f \in Families |-> IF conn[f] # "nil" THEN "read" ELSE "none"]
  /\ newPc' = "ready"
  /\ UNCHANGED << conn, recvMsg, netIn, msgs, msgsClosed, clientVars, fanVars,
                  chanVars, callerVars, panicked, hubVars, enq, ipVersion, newErr,
                  bound, joined, ifacesNo, joinOut, closeErrs, sendVars, socksVars >>

\* A call on the transport that transport.New returned.
CanCall(c) ==
  /\ newPc = "ready"
  /\ CanStart(c)

\* ---------------------------------------------------------------- socket.multicast
\* SendMsg: b, err := msg.Pack(); if err != nil { return err }; return c.send(b),
\* which enters socket.multicast with sent4 = sent6 = 0.
SendMsgStart(c) ==
  /\ CanCall(c)
  /\ opsStarted' = opsStarted + 1
  /\ op' = [op EXCEPT ![c] = "SendMsg"]
  /\ snd' = [snd EXCEPT ![c] = NoSend]
  /\ wrote' = [wrote EXCEPT ![c] = {}]
  /\ \E pack \in BOOLEAN :
       IF pack
         THEN /\ pc' = [pc EXCEPT ![c] = "mc_family"]
              /\ result' = [result EXCEPT ![c] = NoResult]
         ELSE /\ pc' = [pc EXCEPT ![c] = "done"]
              /\ result' = [result EXCEPT ![c] = Result("pack error")]
  /\ UNCHANGED << transportVars, clientVars, fanVars, chanVars, ch, question, ctxDone,
                  seen, closedMidWait, panicked, hubVars, enq, newVars, closeErrs,
                  socksVars >>

\* The loop over one family is over: go on with `if s.conn6 != nil`, or with the
\* test of sent4 and sent6.
AfterFamily(c) ==
  IF snd[c].fam = 4
    THEN /\ snd' = [snd EXCEPT ![c].fam = 6, ![c].idx = 1]
         /\ pc' = [pc EXCEPT ![c] = "mc_family"]
    ELSE /\ pc' = [pc EXCEPT ![c] = "mc_return"]
         /\ UNCHANGED snd

\* if s.conn4 != nil { for _, iface := range s.ifaces {...} }
McFamily(c) ==
  /\ Alive
  /\ pc[c] = "mc_family"
  /\ IF conn[snd[c].fam] # "nil"
       THEN /\ pc' = [pc EXCEPT ![c] = "mc_iface"]
            /\ UNCHANGED snd
       ELSE AfterFamily(c)
  /\ UNCHANGED << transportVars, clientVars, fanVars, chanVars, op, ch, question,
                  ctxDone, result, seen, opsStarted, closedMidWait, panicked, hubVars,
                  enq, newVars, closeErrs, wrote, socksVars >>

\* How one iteration of the loop over s.ifaces ends for an interface that is not
\* in s.ifacesNoIPv4: SetMulticastInterface fails, WriteToUDP fails, or the
\* datagram is written, which takes an open socket.
WriteOutcomes(f) ==
  {"setfail", "writefail"} \cup (IF conn[f] = "open" THEN {"sent"} ELSE {})

\* Mutant of McIface: a failure on one interface ends the loop over the family.
McIface_StopOnFailure(c) ==
  /\ Alive
  /\ pc[c] = "mc_iface"
  /\ LET f == snd[c].fam
         i == snd[c].idx
     IN  IF i > NumIfaces
           THEN AfterFamily(c) /\ UNCHANGED wrote
           ELSE IF i \in ifacesNo[f]
             THEN /\ snd' = [snd EXCEPT ![c].idx = i + 1]
                  /\ UNCHANGED << pc, wrote >>
             ELSE \E o \in WriteOutcomes(f) :
                    /\ wrote' = [wrote EXCEPT ![c] =
                                   @ \cup {[fam |-> f, iface |-> i, out |-> o]}]
                    /\ snd' = [snd EXCEPT
                                 ![c].idx = IF o = "sent" THEN i + 1 ELSE NumIfaces + 1,
                                 ![c].sent[f] = IF o = "sent" THEN @ + 1 ELSE @]
                    /\ UNCHANGED pc
  /\ UNCHANGED << transportVars, clientVars, fanVars, chanVars, op, ch, question,
                  ctxDone, result, seen, opsStarted, closedMidWait, panicked, hubVars,
                  enq, newVars, closeErrs, socksVars >>

\* One iteration of `for _, iface := range s.ifaces`: an interface in
\* s.ifacesNoIPv4 is skipped; otherwise s.sendMu.Lock(), SetMulticastInterface,
\* WriteToUDP, s.sendMu.Unlock(), and sent4++ when the write succeeded; every
\* failure goes on with the next interface.  After the last interface the loop
\* is over.  Close takes no lock, so whatever it does between the two calls
\* shows as one of WriteOutcomes.
McIface(c) ==
  /\ Alive
  /\ pc[c] = "mc_iface"
  /\ LET f == snd[c].fam
         i == snd[c].idx
     IN  IF i > NumIfaces
           THEN AfterFamily(c) /\ UNCHANGED wrote
           ELSE IF i \in ifacesNo[f]
             THEN /\ snd' = [snd EXCEPT ![c].idx = i + 1]
                  /\ UNCHANGED << pc, wrote >>
             ELSE \E o \in WriteOutcomes(f) :
                    /\ wrote' = [wrote EXCEPT ![c] =
                                   @ \cup {[fam |-> f, iface |-> i, out |-> o]}]
                    /\ snd' = [snd EXCEPT
                                 ![c].idx = i + 1,
                                 ![c].sent[f] = IF o = "sent" THEN @ + 1 ELSE @]
                    /\ UNCHANGED pc
  /\ UNCHANGED << transportVars, clientVars, fanVars, chanVars, op, ch, question,
                  ctxDone, result, seen, opsStarted, closedMidWait, panicked, hubVars,
                  enq, newVars, closeErrs, socksVars >>

\* if sent4 == 0 && sent6 == 0 { return errors.New(...) }; return nil
McReturn(c) ==
  /\ Alive
  /\ pc[c] = "mc_return"
  /\ result' = [result EXCEPT ![c] =
                  IF snd[c].sent[4] = 0 /\ snd[c].sent[6] = 0
                    THEN Result("send error") ELSE Result("nil")]
  /\ pc' = [pc EXCEPT ![c] = "done"]
  /\ UNCHANGED << transportVars, clientVars, fanVars, chanVars, op, ch, question,
                  ctxDone, seen, opsStarted, closedMidWait, panicked, hubVars, enq,
                  newVars, closeErrs, sendVars, socksVars >>

\* ---------------------------------------------------------------- socket.unicast
\* The family of a destination address: addr.IP.To4() != nil, else
\* addr.IP.To16() != nil, else neither (0).
AddrFamilies == {4, 6, 0}

\* SendMsgTo: Pack, then c.sendTo(b, addr), which enters socket.unicast.
SendMsgToStart(c, a) ==
  /\ CanCall(c)
  /\ opsStarted' = opsStarted + 1
  /\ op' = [op EXCEPT ![c] = "SendMsgTo"]
  /\ snd' = [snd EXCEPT ![c] = [NoSend EXCEPT !.dest = a]]
  /\ wrote' = [wrote EXCEPT ![c] = {}]
  /\ \E pack \in BOOLEAN :
       IF pack
         THEN /\ pc' = [pc EXCEPT ![c] = "uc_route"]
              /\ result' = [result EXCEPT ![c] = NoResult]
         ELSE /\ pc' = [pc EXCEPT ![c] = "done"]
              /\ result' = [result EXCEPT ![c] = Result("pack error")]
  /\ UNCHANGED << transportVars, clientVars, fanVars, chanVars, ch, question, ctxDone,
                  seen, closedMidWait, panicked, hubVars, enq, newVars, closeErrs,
                  socksVars >>

\* Mutant of Unicast: without a socket of the destination's family the datagram
\* is written on the other family's socket.
Unicast_Fallback(c) ==
  /\ Alive
  /\ pc[c] = "uc_route"
  /\ LET a == snd[c].dest
         f == IF a \in Families /\ conn[a] = "nil" THEN 10 - a ELSE a
     IN  IF f \notin Families \/ conn[f] = "nil"
           THEN /\ result' = [result EXCEPT ![c] = Result("send error")]
                /\ UNCHANGED wrote
           ELSE \E o \in {"writefail"} \cup (IF conn[f] = "open" THEN {"sent"} ELSE {}) :
                  /\ wrote' = [wrote EXCEPT ![c] =
                                 @ \cup {[fam |-> f, iface |-> 0, out |-> o]}]
                  /\ result' = [result EXCEPT ![c] =
                                  IF o = "sent" THEN Result("nil") ELSE Result("send error")]
  /\ pc' = [pc EXCEPT ![c] = "done"]
  /\ UNCHANGED << transportVars, clientVars, fanVars, chanVars, op, ch, question,
                  ctxDone, seen, opsStarted, closedMidWait, panicked, hubVars, enq,
                  newVars, closeErrs, snd, socksVars >>

\* socket.unicast: an IPv4 address goes to s.conn4 and an IPv6 address to
\* s.conn6, with an error when that socket is nil; an address that is neither
\* is an error; the error of WriteToUDP is returned.
Unicast(c) ==
  /\ Alive
  /\ pc[c] = "uc_route"
  /\ LET f == snd[c].dest
     IN  IF f \notin Families \/ conn[f] = "nil"
           THEN /\ result' = [result EXCEPT ![c] = Result("send error")]
                /\ UNCHANGED wrote
           ELSE \E o \in {"writefail"} \cup (IF conn[f] = "open" THEN {"sent"} ELSE {}) :
                  /\ wrote' = [wrote EXCEPT ![c] =
                                 @ \cup {[fam |-> f, iface |-> 0, out |-> o]}]
                  /\ result' = [result EXCEPT ![c] =
                                  IF o = "sent" THEN Result("nil") ELSE Result("send error")]
  /\ pc' = [pc EXCEPT ![c] = "done"]
  /\ UNCHANGED << transportVars, clientVars, fanVars, chanVars, op, ch, question,
                  ctxDone, seen, opsStarted, closedMidWait, panicked, hubVars, enq,
                  newVars, closeErrs, snd, socksVars >>

\* transport.New is called with one of the three IPVersion values; then one
\* caller makes a send call on the transport while the other closes it.
InitTransport ==
  /\ conn = [f \in Families |-> "nil"]
  /\ recvPc = [f \in Families |-> "none"]
  /\ ipVersion \in IPVersions
  /\ newPc = "udp4"
  /\ newErr = [f \in Families |-> FALSE]
  /\ bound = [f \in Families |-> FALSE]
  /\ joined = [f \in Families |-> 0]
  /\ ifacesNo = [f \in Families |-> {}]
  /\ joinOut = [f \in Families |-> [i \in Ifaces |-> "none"]]
  /\ sockPtr = [f \in Families |-> "nil"]
  /\ rcvPc = "none"
  /\ InitIdle

NextTransport ==
  \/ \E f \in Families : NewSocketFamily(f)
  \/ NewSocketReturn
  \/ StartRecvLoop
  \/ \E f \in Families : RecvClosed(f)
  \/ op[1] = "none" /\ SendMsgStart(1)
  \/ McFamily(1)
  \/ McIface(1)
  \/ McReturn(1)
  \/ \E a \in AddrFamilies : op[1] = "none" /\ SendMsgToStart(1, a)
  \/ Unicast(1)
  \/ CanCall(2) /\ CloseEnter(2)
  \/ CloseSocket(2)
  \/ CloseWait(2)
  \/ CloseLock(2)
  \/ CloseSubs(2)

TransportSpec == InitTransport /\ [][NextTransport]_vars

\* ================================================================ sockets (sockets.go)
\* The sockets type that preceded transport.socket: close sets conn4 / conn6 to
\* nil after closing them and multicast reads the two fields on every use, with
\* no lock and no Once around either.

\* The locals and results of a multicast or close call on sockets.
SocksCall(c, o, p) ==
  /\ opsStarted' = opsStarted + 1
  /\ op' = [op EXCEPT ![c] = o]
  /\ pc' = [pc EXCEPT ![c] = p]
  /\ snd' = [snd EXCEPT ![c] = NoSend]
  /\ wrote' = [wrote EXCEPT ![c] = {}]
  /\ result' = [result EXCEPT ![c] = NoResult]
  /\ UNCHANGED << transportVars, clientVars, fanVars, chanVars, ch, question, ctxDone,
                  seen, closedMidWait, panicked, hubVars, enq, newVars, closeErrs,
                  socksVars >>

\* A caller calls sockets.multicast.
SocksMulticastStart(c) ==
  /\ CanStart(c)
  /\ SocksCall(c, "multicast", "sm_family")

\* A caller calls sockets.close.
SocksCloseStart(c) ==
  /\ CanStart(c)
  /\ SocksCall(c, "close", "sc_close")

\* The statements on conn4 are over: go on with conn6, or return nil.
SocksAfterFamily(c, p) ==
  IF snd[c].fam = 4
    THEN /\ snd' = [snd EXCEPT ![c].fam = 6, ![c].idx = 1]
         /\ pc' = [pc EXCEPT ![c] = p]
         /\ UNCHANGED result
    ELSE /\ pc' = [pc EXCEPT ![c] = "done"]
         /\ result' = [result EXCEPT ![c] = Result("nil")]
         /\ UNCHANGED snd

\* sockets.multicast: if s.conn4 != nil { for iface := range s.ifaces {...} }
SocksFamily(c) ==
  /\ Alive
  /\ pc[c] = "sm_family"
  /\ IF sockPtr[snd[c].fam] # "nil"
       THEN /\ pc' = [pc EXCEPT ![c] = "sm_conn"]
            /\ UNCHANGED << snd, result >>
       ELSE SocksAfterFamily(c, "sm_family")
  /\ UNCHANGED << transportVars, clientVars, fanVars, chanVars, op, ch, question,
                  ctxDone, seen, opsStarted, closedMidWait, panicked, hubVars, enq,
                  newVars, closeErrs, wrote, socksVars >>

\* sockets.multicast, first half of an iteration:
\* v4conn := ipv4.NewPacketConn(s.conn4), which reads s.conn4 again;
\* an interface ifaceSupports rejects is skipped; v4conn.SetMulticastInterface
\* may fail, and fails on a conn that is nil or closed; when it succeeds the
\* socket's outgoing multicast interface is this interface, for every user of
\* the socket.  No lock is held from here to the write.
SocksPacketConn(c) ==
  /\ Alive
  /\ pc[c] = "sm_conn"
  /\ LET f == snd[c].fam
         i == snd[c].idx
     IN  IF i > NumIfaces
           THEN SocksAfterFamily(c, "sm_family") /\ UNCHANGED << nilUse, mcastIf >>
           ELSE /\ nilUse' = (nilUse \/ sockPtr[f] = "nil")
                /\ UNCHANGED result
                /\ IF i \in ifacesNo[f]
                     THEN /\ snd' = [snd EXCEPT ![c].idx = i + 1]
                          /\ UNCHANGED << pc, mcastIf >>
                     ELSE \E set \in BOOLEAN :
                            /\ set => (sockPtr[f] = "set" /\ conn[f] = "open")
                            /\ IF set
                                 THEN /\ pc' = [pc EXCEPT ![c] = "sm_write"]
                                      /\ mcastIf' = [mcastIf EXCEPT ![f] = i]
                                      /\ UNCHANGED snd
                                 ELSE /\ snd' = [snd EXCEPT ![c].idx = i + 1]
                                      /\ UNCHANGED << pc, mcastIf >>
  /\ UNCHANGED << transportVars, clientVars, fanVars, chanVars, op, ch, question,
                  ctxDone, seen, opsStarted, closedMidWait, panicked, hubVars, enq,
                  newVars, closeErrs, wrote, sockPtr >>

\* sockets.multicast, second half of an iteration: s.conn4.WriteToUDP(b, ...),
\* which reads s.conn4 once more; an error is logged and the loop goes on.  The
\* datagram leaves through the interface the socket has selected at this moment.
SocksWrite(c) ==
  /\ Alive
  /\ pc[c] = "sm_write"
  /\ LET f == snd[c].fam
         i == snd[c].idx
     IN  /\ nilUse' = (nilUse \/ sockPtr[f] = "nil")
         /\ \E o \in {"writefail"} \cup
                      (IF sockPtr[f] = "set" /\ conn[f] = "open" THEN {"sent"} ELSE {}) :
              wrote' = [wrote EXCEPT ![c] = @ \cup {[fam |-> f, iface |-> i, out |-> o,
                                                      via |-> mcastIf[f]]}]
         /\ snd' = [snd EXCEPT ![c].idx = i + 1]
         /\ pc' = [pc EXCEPT ![c] = "sm_conn"]
  /\ UNCHANGED << transportVars, clientVars, fanVars, chanVars, op, ch, question,
                  ctxDone, result, seen, opsStarted, closedMidWait, panicked, hubVars,
                  enq, newVars, closeErrs, sockPtr, mcastIf >>

\* sockets.close: if s.conn4 != nil { s.conn4.Close(); ... }
SocksCloseConn(c) ==
  /\ Alive
  /\ pc[c] = "sc_close"
  /\ IF sockPtr[snd[c].fam] # "nil"
       THEN /\ conn' = [conn EXCEPT ![snd[c].fam] = "closed"]
            /\ pc' = [pc EXCEPT ![c] = "sc_nil"]
            /\ UNCHANGED << snd, result >>
       ELSE SocksAfterFamily(c, "sc_close") /\ UNCHANGED conn
  /\ UNCHANGED << recvPc, recvMsg, netIn, msgs, msgsClosed, clientVars, fanVars,
                  chanVars, op, ch, question, ctxDone, seen, opsStarted, closedMidWait,
                  panicked, hubVars, enq, newVars, closeErrs, wrote, socksVars >>

\* sockets.close: s.conn4 = nil
SocksCloseNil(c) ==
  /\ Alive
  /\ pc[c] = "sc_nil"
  /\ sockPtr' = [sockPtr EXCEPT ![snd[c].fam] = "nil"]
  /\ SocksAfterFamily(c, "sc_close")
  /\ UNCHANGED << transportVars, clientVars, fanVars, chanVars, op, ch, question,
                  ctxDone, seen, opsStarted, closedMidWait, panicked, hubVars, enq,
                  newVars, closeErrs, wrote, nilUse, mcastIf >>

\* newSockets was asked for both families, so at least one socket is open;
\* ifaceVersions says which interfaces lack an address of a family, and
\* initConn passes to JoinGroup only the interfaces ifaceSupports accepts.
InitSocks ==
  /\ conn \in { f \in [Families -> {"nil", "open"}] : \E x \in Families : f[x] = "open" }
  /\ sockPtr = [f \in Families |-> IF conn[f] = "open" THEN "set" ELSE "nil"]
  /\ ifacesNo \in [Families -> SUBSET Ifaces]
  /\ recvPc = [f \in Families |-> "none"]
  /\ ipVersion = Families
  /\ newPc = "ready"
  /\ newErr = [f \in Families |-> conn[f] = "nil"]
  /\ bound = [f \in Families |-> conn[f] = "open"]
  /\ joined = [f \in Families |-> 0]
  /\ joinOut = [f \in Families |->
                 [i \in Ifaces |-> IF conn[f] = "open" /\ i \notin ifacesNo[f]
                                     THEN "joined" ELSE "none"]]
  /\ rcvPc = "none"
  /\ InitIdle

NextSocks ==
  \/ \E c \in Callers : SocksMulticastStart(c)
  \/ \E c \in Callers : SocksCloseStart(c)
  \/ \E c \in Callers : SocksFamily(c)
  \/ \E c \in Callers : SocksPacketConn(c)
  \/ \E c \in Callers : SocksWrite(c)
  \/ \E c \in Callers : SocksCloseConn(c)
  \/ \E c \in Callers : SocksCloseNil(c)

SocksSpec == InitSocks /\ [][NextSocks]_vars

\* ---------------------------------------------------------------- specification
Next ==
  \/ \E f \in Families : RecvRead(f, MaxRecv, FALSE)
  \/ \E f \in Families : RecvEnqueue(f)
  \/ \E f \in Families : RecvClosed(f)
  \/ \E c \in Callers : CloseEnter(c)
  \/ \E c \in Callers : CloseSocket(c)
  \/ \E c \in Callers : CloseWait(c)
  \/ \E c \in Callers : CloseLock(c)
  \/ \E c \in Callers : CloseSubs(c)
  \/ \E c \in Callers : CloseOnceWait(c)
  \/ \E c \in Callers : SubscribeStart(c)
  \/ \E c \in Callers, q \in Questions : QueryFirstStart(c, q)
  \/ \E c \in Callers : SubOnce(c)
  \/ \E k \in 1..Len(chBuf) : Consume(k)
  \/ FanRecv
  \/ FanCopy
  \/ FanSend
  \/ FanCleanupLock
  \/ FanCleanup
  \/ \E c \in Callers : QFSend(c)
  \/ \E c \in Callers : QFRecv(c)
  \/ \E c \in Callers : QFClosed(c)
  \/ \E c \in Callers : QFDeadline(c)
  \/ \E c \in Callers : CtxFire(c)

Spec == Init /\ [][Next]_vars

\* One caller makes a QueryFirst call while the other closes the client.
NextQuery ==
  \/ \E f \in Families : RecvRead(f, MaxRecvQ, TRUE)
  \/ \E f \in Families : RecvEnqueue(f)
  \/ \E f \in Families : RecvClosed(f)
  \/ CloseEnter(2)
  \/ CloseSocket(2)
  \/ CloseWait(2)
  \/ CloseLock(2)
  \/ CloseSubs(2)
  \/ \E q \in Questions : op[1] = "none" /\ QueryFirstStart(1, q)
  \/ SubOnce(1)
  \/ FanRecv
  \/ FanCopy
  \/ FanSend
  \/ FanCleanupLock
  \/ FanCleanup
  \/ QFSend(1)
  \/ QFRecv(1)
  \/ QFClosed(1)
  \/ QFDeadline(1)
  \/ CtxFire(1)

QuerySpec == Init /\ [][NextQuery]_vars

TypeOK ==
  /\ conn \in [Families -> {"nil", "open", "closed"}]
  /\ recvPc \in [Families -> {"none", "read", "enqueue", "exited"}]
  /\ netIn \in 0..MaxRecvQ
  /\ Len(msgs) <= MsgsCap
  /\ closeOnce \in {"idle", "running", "done"}
  /\ \A k \in 1..Len(chBuf) : Len(chBuf[k]) <= SubCap
  /\ Len(chBuf) <= MaxOps

\* Fairness for QuerySpec: Go's select picks among its ready cases at random, so
\* a ctx.Done() case that stays ready is taken eventually.
FairQuerySpec == QuerySpec /\ WF_vars(QFDeadline(1))

\* Fairness for QuerySpec when Close is looked at: the goroutine running Close,
\* the receive loops and the fan-out goroutine are scheduled while they can
\* take a step.  Nothing is assumed of the holders of subscriber channels, who
\* may never read, nor of QueryFirst.
FairCloseSpec ==
  /\ QuerySpec
  /\ WF_vars(CloseSocket(2))
  /\ WF_vars(CloseWait(2))
  /\ WF_vars(CloseLock(2))
  /\ WF_vars(CloseSubs(2))
  /\ \A f \in Families : WF_vars(RecvClosed(f)) /\ WF_vars(RecvEnqueue(f))
  /\ WF_vars(FanRecv) /\ WF_vars(FanCopy) /\ WF_vars(FanSend)
  /\ WF_vars(FanCleanupLock) /\ WF_vars(FanCleanup)

\* ---------------------------------------------------------------- properties
Chans == 1..Len(chBuf)

\* What a receive on channel k does now.
ReadResult(k) ==
  IF chBuf[k] # << >> THEN "message"
  ELSE IF chClosed[k] THEN "closed"
  ELSE "blocks"

\* No background task of the client is running.
TasksTerminated == RecvLoopsDone /\ fanPc \in {"off", "exited"}

\* The step on which caller c returns from a Close call that ran the teardown
\* or waited for the call running it.
ReturnsFromClose(c) ==
  /\ pc[c] \in {"close_subs", "close_oncewait"}
  /\ pc'[c] = "done"

\* C1: no message is ever sent (or attempted to be sent) on a subscriber queue
\* after that queue has been closed.
C1_NoSendOnClosedSubscriber == panicked # "send on closed channel"

\* C2: at the moment a Close call returns, every background task of the client
\* (each per-socket receive task and the fan-out task) has terminated.
C2_CloseJoinsAllTasks ==
  [][\A c \in Callers : ReturnsFromClose(c) => TasksTerminated']_vars

\* C3: when Close is called while a QueryFirst call is blocked waiting and its
\* deadline has not fired, nothing panics and the call returns "client closed"
\* (a matching answer that reached its queue before the queue was closed is
\* accepted here as well).
C3_CloseMidWaitIsClientClosed ==
  \A c \in Callers :
    (op[c] = "QueryFirst" /\ closedMidWait[c]) =>
      /\ panicked = "none"
      /\ (pc[c] = "done" /\ ~ctxDone[c]) => result[c].kind \in {"client closed", "answer"}

\* C4: once the client is closed and nothing is left running that could close
\* a channel, every channel Subscribe returned is closed.
C4_SubscribeChannelsClosedAfterClose ==
  (/\ closeOnce = "done"
   /\ fanPc \in {"off", "exited"}
   /\ \A c \in Callers : pc[c] \in {"idle", "done"})
    => \A k \in Chans : chClosed[k]

\* C8: after a QueryFirst call has returned, the queue it created is no longer
\* registered with the client.
C8_QueryFirstReleasesSubscription ==
  \A c \in Callers :
    (op[c] = "QueryFirst" /\ pc[c] = "done") => ch[c] \notin Range(subscribers)

\* The question a record answers, field by field.
QuestionOf(rr) == [Name |-> rr.Name, Qtype |-> rr.Rrtype, Qclass |-> rr.Class]

\* <<i, j>>: the j-th answer of the i-th message caller c's QueryFirst took from
\* its queue answers its question exactly.
MatchPos(c) ==
  UNION { { << i, j >> : j \in { x \in 1..Len(Answer(seen[c][i])) :
                                   QuestionOf(Answer(seen[c][i])[x]) = question[c] } } :
          i \in 1..Len(seen[c]) }

Earlier(p, q) == p[1] < q[1] \/ (p[1] = q[1] /\ p[2] < q[2])

\* C9: QueryFirst returns the first record, in arrival order of the messages on
\* its queue and in answer-section order within a message, whose name, type and
\* class equal the question's; a message with no such record does not end the
\* wait, which ends only on a match, a fired context, a closed and drained
\* queue, or a failed send.
C9_FirstMatchWins ==
  \A c \in Callers : op[c] = "QueryFirst" =>
    /\ result[c].kind = "answer" =>
         \E p \in MatchPos(c) :
           /\ \A q \in MatchPos(c) : p = q \/ Earlier(p, q)
           /\ result[c].rr = Answer(seen[c][p[1]])[p[2]]
           /\ p[1] = Len(seen[c])
    /\ result[c].kind # "answer" => MatchPos(c) = {}
    /\ pc[c] = "done" =>
         result[c].kind \in {"answer", "deadline", "client closed", "send error"}
    /\ result[c].kind = "deadline" => ctxDone[c]
    /\ result[c].kind = "client closed" => (chClosed[ch[c]] /\ chBuf[ch[c]] = << >>)
    /\ result[c].kind = "send error" => seen[c] = << >>

\* C9 witness: a QueryFirst call skipped a message without a match and returned
\* the first matching record of the next one.
C9_Witness ==
  \E c \in Callers :
    /\ op[c] = "QueryFirst" /\ pc[c] = "done"
    /\ result[c].kind = "answer"
    /\ Len(seen[c]) = 2
    /\ result[c].rr.Rdata = 4

\* C10: QueryFirst returns the deadline failure only after its context fired,
\* and while the client is not closed a waiting call whose context has fired
\* returns (with the deadline failure, or with an answer that arrived first).
C10_DeadlineFailure ==
  /\ [](\A c \in Callers : result[c].kind = "deadline" => ctxDone[c])
  /\ \A c \in Callers :
       (pc[c] = "qf_wait" /\ ctxDone[c] /\ closeOnce = "idle")
         ~> \/ (pc[c] = "done" /\ result[c].kind \in {"deadline", "answer"})
            \/ closeOnce # "idle"

\* C10 witness: with the client open, a call that saw only messages without a
\* match returned the deadline failure.
C10_Witness ==
  \E c \in Callers :
    /\ op[c] = "QueryFirst" /\ pc[c] = "done"
    /\ result[c].kind = "deadline"
    /\ closeOnce = "idle"
    /\ seen[c] # << >>
    /\ MatchPos(c) = {}

\* C5: a subscribe call made after close has completed returns a queue that is
\* closed and empty, so the first read on it observes "closed" without
\* blocking, and the queue is not in the subscriber set.
C5_SubscribeAfterCloseIsClosed ==
  \A k \in lateSubs :
    /\ ReadResult(k) = "closed"
    /\ got[k] = << >>
    /\ k \notin Range(subs)

\* C5 witness: Responses was called on a client whose hub had been closed.
C5_Witness ==
  \E c \in Callers :
    /\ op[c] = "Responses" /\ pc[c] = "done"
    /\ ch[c] \in lateSubs
    /\ closed

\* C6: no subscriber queue ever holds or held a message whose broadcast came
\* after the close, and such a broadcast changes nothing else either.
C6_PublishAfterCloseIsNoOp ==
  /\ \A k \in Chans : \A i \in 1..Len(got[k]) : got[k][i] \notin latePubs
  /\ \A a \in attempts : a.id \notin latePubs
  /\ latePubs # {} => panicked = "none"

\* C6 witness: a broadcast came after the close while a subscriber that was
\* registered before the close had room in its queue.
C6_Witness ==
  /\ latePubs # {}
  /\ rcvPc \in {"recv", "exited"}
  /\ \E k \in Chans : k \notin lateSubs /\ chBuf[k] = << >>

\* The broadcast of message id has run to its end.
BroadcastOver(id) == ~(rcvPc = "broadcast" /\ rcvMsg.id = id)

\* C7: a published message is enqueued exactly once on every registered
\* subscriber queue that is not full when broadcast offers it, on no queue that
\* is full then, and on no queue that is not registered; every registered
\* queue is offered the message whatever the state of the others.
C7_BroadcastReachesEveryFreeSubscriber ==
  /\ \A a \in attempts :
       (\E i \in 1..Len(got[a.ch]) : got[a.ch][i] = a.id) <=> ~a.wasFull
  /\ \A k \in Chans : \A i, j \in 1..Len(got[k]) : got[k][i] = got[k][j] => i = j
  /\ \A k \in Chans : \A i \in 1..Len(got[k]) : << got[k][i], k >> \in due
  /\ \A d \in due :
       BroadcastOver(d[1]) => \E a \in attempts : a.id = d[1] /\ a.ch = d[2]

\* C7 witness: one message was offered to two registered subscribers, one with
\* a full queue, listed first, and one with room; only the second got it.
C7_Witness ==
  \E a, b \in attempts :
    /\ a.id = b.id
    /\ a.ch < b.ch
    /\ a.wasFull /\ ~b.wasFull
    /\ BroadcastOver(a.id)
    /\ \E i \in 1..Len(got[b.ch]) : got[b.ch][i] = b.id

\* transport.New has returned, with the transport or with an error.
Constructed == newPc \in {"start", "ready"}
ConstructionOver == Constructed \/ newPc = "failed"

\* C11: for every requested address-family set, transport construction
\* succeeds if and only if the socket bind of at least one requested family
\* succeeded.
C11_ConstructionIffSomeBind ==
  ConstructionOver => (Constructed <=> \E f \in ipVersion : bound[f])

\* C12: from a successful construction until Close, at least one of the IPv4
\* and IPv6 sockets of the transport is live.
C12_NeverZeroLiveSockets ==
  (newPc = "ready" /\ closeOnce = "idle") => \E f \in Families : conn[f] = "open"

\* A send call of caller c went into socket.multicast / socket.unicast and returned.
SendReturned(c, o) ==
  /\ op[c] = o
  /\ pc[c] = "done"
  /\ result[c].kind # "pack error"

\* C13: multicast returns a failure exactly when no write on any interface of
\* any active family succeeded; every interface of every active family that is
\* not known to lack an address of the family is attempted, whatever happened
\* on the interfaces and on the family before it.
C13_MulticastFailsIffNothingSent ==
  \A c \in Callers : SendReturned(c, "SendMsg") =>
    /\ result[c].kind = "send error" <=> ~(\E w \in wrote[c] : w.out = "sent")
    /\ result[c].kind \in {"send error", "nil"}
    /\ \A f \in Families : \A i \in Ifaces :
         (\E w \in wrote[c] : w.fam = f /\ w.iface = i)
           <=> (conn[f] # "nil" /\ i \notin ifacesNo[f])

\* C13 witness: a multicast on two active families returned success after
\* SetMulticastInterface failed on one interface and WriteToUDP failed on
\* another, both before the write that succeeded.
C13_Witness ==
  \E c \in Callers :
    /\ SendReturned(c, "SendMsg")
    /\ result[c].kind = "nil"
    /\ \E w \in wrote[c] : w.fam = 4 /\ w.iface = 1 /\ w.out = "setfail"
    /\ \E w \in wrote[c] : w.fam = 4 /\ w.iface = NumIfaces /\ w.out = "writefail"
    /\ \E w \in wrote[c] : w.fam = 6 /\ w.iface = NumIfaces /\ w.out = "sent"

\* C14: a family whose socket was bound while no interface joined the group
\* keeps its socket open and active, and is not counted as failed by the
\* construction.
C14_ZeroJoinKeepsFamilyActive ==
  \A f \in Families :
    (bound[f] /\ joined[f] = 0 /\ closeOnce = "idle") => (conn[f] = "open" /\ ~newErr[f])

\* C15: unicast writes only on the socket of the destination's family, and
\* without an active socket of that family it fails without writing at all.
C15_UnicastRoutesByFamily ==
  \A c \in Callers : op[c] = "SendMsgTo" =>
    /\ \A w \in wrote[c] : w.fam = snd[c].dest
    /\ SendReturned(c, "SendMsgTo") =>
         /\ (snd[c].dest \notin Families \/ conn[snd[c].dest] = "nil")
               => (result[c].kind = "send error" /\ wrote[c] = {})
         /\ result[c].kind = "nil" <=> \E w \in wrote[c] : w.out = "sent"
         /\ (snd[c].dest \in Families /\ conn[snd[c].dest] # "nil") => wrote[c] # {}

\* C15 witness: a unicast to an IPv4 address failed on a transport whose only
\* socket is the open IPv6 one.
C15_Witness ==
  \E c \in Callers :
    /\ SendReturned(c, "SendMsgTo")
    /\ snd[c].dest = 4
    /\ conn[4] = "nil" /\ conn[6] = "open"
    /\ result[c].kind = "send error"

\* C16: with Close running concurrently with multicast and unicast sends, every
\* send completes or returns an error, nothing panics, and no send uses a
\* socket field that Close has set to nil.
C16_SendNeverUsesNilSocket ==
  /\ ~nilUse
  /\ panicked = "none"
  /\ \A c \in Callers :
       (op[c] \in {"multicast", "SendMsg", "SendMsgTo"} /\ pc[c] = "done")
         => result[c].kind \in {"nil", "send error", "pack error"}

\* The messages caller c's QueryFirst has taken from its queue, followed by
\* those still buffered in it.
Stream(c) == seen[c] \o (IF ch[c] \in Chans THEN chBuf[ch[c]] ELSE << >>)

C18_SlowSubscriberBlocksNobody ==
  /\ [](\A a \in attempts : ~a.wasFull => \E i \in 1..Len(got[a.ch]) : got[a.ch][i] = a.id)
  /\ [](panicked = "none")
  /\ (rcvPc = "broadcast") ~> (rcvPc # "broadcast")
  /\ (rcvPc = "lock") ~> (rcvPc # "lock")
  /\ \A f \in Families : (recvPc[f] = "enqueue") ~> (recvPc[f] # "enqueue")

\* C18 witness: a subscriber still holds, unread, the only message it ever
\* got; a later message found that queue full, was delivered to another
\* subscriber and its broadcast is over.
C18_Witness ==
  \E k1, k2 \in Chans :
    /\ k1 # k2
    /\ Len(got[k1]) = 1
    /\ Len(chBuf[k1]) = 1 /\ chBuf[k1][1].id = got[k1][1]
    /\ \E a \in attempts :
         /\ a.ch = k1 /\ a.wasFull
         /\ \E i \in 1..Len(got[k2]) : got[k2][i] = a.id
         /\ BroadcastOver(a.id)

\* The step on which caller c returns from a Close call that found the Once
\* done or waited for the call running it.
LaterCloseReturns(c) ==
  /\ pc[c] \in {"idle", "close_oncewait"}
  /\ op'[c] = "Close"
  /\ pc'[c] = "done"

\* C19: the Close call that runs the teardown returns the join of the errors
\* of closing the sockets (nil when there were none); every other Close call
\* returns nil and changes nothing in the client or the transport.
C19_CloseOnceSemantics ==
  [][\A c \in Callers :
       /\ (pc[c] = "close_subs" /\ pc'[c] = "done")
            => (result'[c] = Result(Join(closeErrs)) /\ closeOnce' = "done")
       /\ LaterCloseReturns(c)
            => /\ result'[c] = Result("nil")
               /\ UNCHANGED << transportVars, clientVars, fanVars, chanVars,
                               closeErrs, panicked >>]_vars

\* C19 witness: the teardown returned an error to the caller that ran it, and
\* another Close call has returned nil.
C19_Witness ==
  \E c, d \in Callers :
    /\ c # d
    /\ op[c] = "Close" /\ pc[c] = "done" /\ result[c] = Result("err")
    /\ op[d] = "Close" /\ pc[d] = "done" /\ result[d] = Result("nil")
    /\ \E f \in Families : closeErrs[f]

\* C20: the inbound queue and every subscriber queue are closed at most once:
\* no close of a closed channel ever happens.
C20_QueuesClosedAtMostOnce ==
  panicked \notin {"close of closed channel", "close of closed msgs"}

\* C20 witness: Close and the fan-out goroutine's cleanup have both run over
\* the subscriber list, with two subscriber queues closed.
C20_Witness ==
  /\ closeOnce = "done"
  /\ fanPc = "exited"
  /\ msgsClosed
  /\ \E k1, k2 \in Chans : k1 # k2 /\ chClosed[k1] /\ chClosed[k2]
  /\ panicked = "none"

\* C21: for any number of concurrent multicast calls, every datagram a call
\* writes on a family's socket leaves through the interface that call selected
\* just before: no other call's selection on that socket comes between a
\* call's SetMulticastInterface and its write.
C21_WriteUsesOwnInterface ==
  \A c \in Callers :
    op[c] = "multicast" => \A w \in wrote[c] : w.out = "sent" => w.via = w.iface

\* C22: a receive loop that has decoded a message is never stopped by a full
\* inbound queue (its enqueue step can be taken, dropping the message), and
\* the queue never holds more than its depth.
C22_EnqueueNeverBlocks ==
  /\ Len(msgs) <= MsgsCap
  /\ \A f \in Families :
       (Alive /\ recvPc[f] = "enqueue") => ENABLED HubRecvEnqueue(f)

\* C23: the fan-out goroutine is started at most once however many Subscribe
\* calls run, and it runs only once a Subscribe call has registered a channel.
C23_FanOutStartedOnce ==
  /\ fanStarted <= 1
  /\ (fanStarted = 0) <=> (fanPc = "off")
  /\ fanStarted = 1 => (broadcasterOnce /\ Len(chBuf) >= 1)

\* C23 witness: one Subscribe call has started the fan-out goroutine and
\* returned, and another caller's Subscribe call has registered its channel
\* and is at broadcasterOnce.Do.
C23_Witness ==
  \E c, d \in Callers :
    /\ c # d
    /\ op[c] = "Subscribe" /\ pc[c] = "done"
    /\ op[d] = "Subscribe" /\ pc[d] = "sub_once"
    /\ fanStarted = 1
    /\ Len(subscribers) = 2

\* The interfaces a multicast call has attempted on family f.
Attempted(c, f) == { w.iface : w \in { x \in wrote[c] : x.fam = f } }

\* The interfaces that joined the group of family f during construction.
JoinedIfaces(f) == { i \in Ifaces : joinOut[f][i] = "joined" }

\* C24: for each active family, every interface whose group join failed during
\* construction is marked no-join for the family, a multicast call attempts
\* only interfaces that joined the family's group, and a call that has
\* returned has attempted every one of them.
C24_MulticastAttemptsJoinedInterfaces ==
  \A f \in { x \in Families : newPc = "ready" /\ conn[x] # "nil" } :
    /\ \A i \in Ifaces : joinOut[f][i] \in {"noaddr", "failed"} => i \in ifacesNo[f]
    /\ \A c \in Callers :
         op[c] = "SendMsg" =>
           /\ Attempted(c, f) \subseteq JoinedIfaces(f)
           /\ SendReturned(c, "SendMsg") => Attempted(c, f) = JoinedIfaces(f)

\* C25: an interface that has no address of a family (it is in s.ifacesNoIPv4 /
\* s.ifacesNoIPv6) was never passed to JoinGroup for that family, and no
\* multicast call uses it as outgoing interface for that family.
C25_NoAddressInterfaceNeverUsed ==
  \A f \in Families : \A i \in ifacesNo[f] :
    /\ joinOut[f][i] = "none"
    /\ \A c \in Callers : op[c] = "SendMsg" => i \notin Attempted(c, f)

\* C26: Close closes every registered subscriber queue before it closes the
\* transport's sockets, and the Close call that runs the teardown returns only
\* once the transport is closed.
C26_SubscribersClosedBeforeSockets ==
  [][\A c \in Callers :
       /\ (pc[c] = "close_socket" /\ pc'[c] = "close_wait")
            => \A k \in Range(subscribers) : chClosed[k]
       /\ (pc[c] = "close_subs" /\ pc'[c] = "done")
            => (msgsClosed' /\ \A f \in Families : conn'[f] # "open")]_vars

\* QueryFirst of caller c is at or past its send and has not returned.
SendStarted(c) == op[c] = "QueryFirst" /\ pc[c] \in {"qf_send", "qf_wait"}

\* C27: from the moment QueryFirst starts its send its queue is registered
\* (until the client closes the queue), so every message for which the fan-out
\* takes its copy of the subscriber list from then on is offered to the queue.
C27_RegisteredBeforeSend ==
  /\ [](\A c \in Callers :
          SendStarted(c) => (ch[c] \in Range(subscribers) \/ chClosed[ch[c]]))
  /\ [][(fanPc = "copy" /\ fanPc' # "copy") =>
          \A c \in Callers :
            (SendStarted(c) /\ ~chClosed[ch[c]]) => ch[c] \in Range(fanSubs')]_vars

\* C27 witness: QueryFirst has sent its query, has taken one message from its
\* queue while waiting, and a second message has been offered to the queue and
\* is buffered on it.
C27_Witness ==
  \E c \in Callers :
    /\ op[c] = "QueryFirst" /\ pc[c] = "qf_wait"
    /\ Len(seen[c]) = 1
    /\ chBuf[ch[c]] # << >>
    /\ enq = 2

\* C28: a read that yields no decoded message leaves the inbound queue and every
\* subscriber queue as they were, and a receive loop has returned only if its
\* socket is closed.
C28_UndecodableIsDiscarded ==
  /\ [](\A f \in Families : recvPc[f] = "exited" => conn[f] = "closed")
  /\ [][(netIn' = netIn + 1 /\ recvMsg' = recvMsg) => UNCHANGED << msgs, chBuf >>]_vars

\* C29: once transport.New has returned, no step of multicast, unicast, the
\* receive loops or Close changes s.ifacesNoIPv4 / s.ifacesNoIPv6 (s.ifaces is
\* the fixed set Ifaces).
C29_CapabilityMapsFrozen ==
  [][newPc = "ready" => UNCHANGED ifacesNo]_vars

\* C29 witness: a family has an interface without an address of the family, a
\* multicast call has written on another interface and returned, and Close has
\* closed the sockets and returned.
C29_Witness ==
  /\ newPc = "ready"
  /\ \E f \in Families : ifacesNo[f] # {} /\ \E w \in wrote[1] : w.fam = f
  /\ SendReturned(1, "SendMsg")
  /\ op[2] = "Close" /\ pc[2] = "done"

\* C30: the inbound queue is closed only when every receive loop has returned,
\* and no receive loop sends on the closed queue.
C30_MsgsClosedAfterRecvLoops ==
  /\ msgsClosed => RecvLoopsDone
  /\ panicked # "send on closed msgs"

\* C30 witness: a receive loop enqueued a message and returned after its socket
\* was closed, and the inbound queue is closed.
C30_Witness ==
  /\ msgsClosed
  /\ enq >= 1
  /\ \E f \in Families : recvPc[f] = "exited"
  /\ panicked = "none"

\* Caller c is inside a Close call that has not returned.
InClose(c) == op[c] = "Close" /\ pc[c] # "done"

\* C31: a Close call in progress returns, whatever is buffered on the inbound
\* queue and on the subscriber queues and even if nobody ever reads them.
C31_CloseTerminates ==
  \A c \in Callers : InClose(c) ~> (pc[c] = "done")

\* C32: once transport.New has returned, every UDP socket it opened that is
\* still open belongs to a transport that was returned and is that transport's
\* active socket of the family; and after Close has returned none is open.
C32_NoSocketLeftBehind ==
  \A f \in Families :
    /\ (ConstructionOver /\ SocketOpen(f)) => (Constructed /\ conn[f] = "open")
    /\ (\E c \in Callers : op[c] = "Close" /\ pc[c] = "done") => ~SocketOpen(f)

\* C33: the message QueryFirst returns an answer from, like every message it
\* takes from its queue, was received from the network after the call had
\* subscribed: its channel existed when ReadFromUDP returned the datagram.
C33_OnlyMessagesAfterSubscribe ==
  \A c \in Callers :
    op[c] = "QueryFirst" =>
      \A i \in 1..Len(seen[c]) : seen[c][i].chans >= ch[c]

====
